---- MODULE Spec2Model ----
(***************************************************************************)
(* s3-wasi-http: the SigV4 request builder (src/src/api/mod.rs) and the    *)
(* request types that create it.                                            *)
(*                                                                          *)
(* A Rust String / &str / Vec<u8> is a sequence of byte values (0..255);    *)
(* an Option<T> is a sequence of length 0 (None) or 1 (Some).  A digest is  *)
(* an ideal (collision-free) one: a bracketed term over its input bytes,    *)
(* written with the code points 256..259, which no input byte can be.       *)
(***************************************************************************)
EXTENDS Integers, Sequences, FiniteSets, TLC

VARIABLES
  builder,   \* Option<S3RequestBuilder>: None until a request type made one
  origin,    \* the call that made the builder (or failed to), with its input
  ops,       \* builder calls made since
  built,     \* what the latest builder call returned, when that call was build()
  decoder    \* the response decoder at work: its cursor, its loops and its locals

vars == <<builder, origin, ops, built, decoder>>

----------------------------------------------------------------------------
(* Bounds of the exploration. *)

\* builder calls made on one builder after it was created
MaxOps == 1
\* clock readings (seconds after the first one) a build may observe
MaxTick == 1

----------------------------------------------------------------------------
(* Strings *)

None == <<>>
Some(x) == <<x>>

RECURSIVE Flatten(_)
\* concatenation of a sequence of strings: format!() and String::push_str
Flatten(ss) == IF ss = <<>> THEN <<>> ELSE Head(ss) \o Flatten(Tail(ss))

RECURSIVE Join(_, _)
\* [String]::join(sep)
Join(ss, sep) ==
  IF ss = <<>> THEN <<>>
  ELSE IF Len(ss) = 1 THEN ss[1]
  ELSE ss[1] \o sep \o Join(Tail(ss), sep)

RECURSIVE StrLess(_, _)
\* Ord of String: byte-wise lexicographic, a proper prefix is smaller
StrLess(a, b) ==
  IF b = <<>> THEN FALSE
  ELSE IF a = <<>> THEN TRUE
  ELSE IF a[1] # b[1] THEN a[1] < b[1]
  ELSE StrLess(Tail(a), Tail(b))

\* Ord of (String, String): by the first component, then by the second
PairLess(p, q) == StrLess(p[1], q[1]) \/ (p[1] = q[1] /\ StrLess(p[2], q[2]))

RECURSIVE Insert(_, _)
Insert(sorted, p) ==
  IF sorted = <<>> THEN <<p>>
  ELSE IF PairLess(p, sorted[1]) THEN <<p>> \o sorted
  ELSE <<sorted[1]>> \o Insert(Tail(sorted), p)

RECURSIVE SortPairs(_)
\* Vec<(String, String)>::sort(): a stable sort by Ord of the pairs
SortPairs(v) ==
  IF v = <<>> THEN <<>>
  ELSE Insert(SortPairs(SubSeq(v, 1, Len(v) - 1)), v[Len(v)])

StartsWith(s, prefix) ==
  Len(s) >= Len(prefix) /\ SubSeq(s, 1, Len(prefix)) = prefix

\* str::to_lowercase / HeaderName's normalisation, on ASCII
ToLower(s) == [i \in 1..Len(s) |-> IF s[i] >= 65 /\ s[i] <= 90 THEN s[i] + 32 ELSE s[i]]

RECURSIVE Digits(_)
Digits(n) == IF n < 10 THEN <<48 + n>> ELSE Digits(n \div 10) \o <<48 + (n % 10)>>

\* to_string() of an integer
IntToString(n) == IF n < 0 THEN <<45>> \o Digits(-n) ELSE Digits(n)

RECURSIVE Pad(_, _)
\* chrono's zero-padded numeric fields (%Y, %m, %d, %H, %M, %S)
Pad(n, width) == IF width = 0 THEN <<>> ELSE Pad(n \div 10, width - 1) \o <<48 + (n % 10)>>

----------------------------------------------------------------------------
(* Percent-encoding *)

CONTROLS == (0..31) \cup {127}

QUERY_SET ==
  CONTROLS \cup {32, 47, 58, 44, 63, 35, 91, 93, 123, 125, 124, 64, 33, 36, 38,
                 39, 40, 41, 42, 43, 59, 61, 37, 60, 62, 34, 94, 96, 92}

PATH_SET == QUERY_SET \ {47}

HexDigit(n) == IF n < 10 THEN 48 + n ELSE 55 + n

\* percent_encoding::utf8_percent_encode: a byte of the set, or a non-ASCII
\* byte, becomes %XX (upper-case hex); every other byte is kept
Utf8PercentEncode(s, set) ==
  Flatten([i \in 1..Len(s) |->
             IF s[i] \in set \/ s[i] >= 128
             THEN <<37, HexDigit(s[i] \div 16), HexDigit(s[i] % 16)>>
             ELSE <<s[i]>>])

percent_encode_query(value) == Utf8PercentEncode(value, QUERY_SET)

percent_encode_path(value) == Utf8PercentEncode(value, PATH_SET)

----------------------------------------------------------------------------
(* Digests *)

\* Sha256::digest(data)
Sha256Digest(data) == <<256>> \o data \o <<257>>

\* hex::encode(bytes): the code point 1000 + b stands for the two hexadecimal
\* digits of b, a text that is valid wherever hexadecimal digits are
HexEncode(bytes) == [i \in 1..Len(bytes) |-> 1000 + bytes[i]]

hmac_sha256(key, data) == <<258>> \o key \o <<259>> \o data \o <<257>>

\* get_signature_key with the region and the service stages exchanged
get_signature_key_service_first(secret_key, date, region, service) ==
  hmac_sha256(
    hmac_sha256(
      hmac_sha256(hmac_sha256(<<65, 87, 83, 52>> \o secret_key, date), service),
      region),
    <<97, 119, 115, 52, 95, 114, 101, 113, 117, 101, 115, 116>>)

get_signature_key(secret_key, date, region, service) ==
  LET k_secret == <<65, 87, 83, 52>> \o secret_key             \* "AWS4"
      k_date == hmac_sha256(k_secret, date)
      k_region == hmac_sha256(k_date, region)
      k_service == hmac_sha256(k_region, service)
  IN hmac_sha256(k_service, <<97, 119, 115, 52, 95, 114, 101, 113, 117, 101, 115, 116>>)

----------------------------------------------------------------------------
(* Program constants *)

AWS_SERVICE == <<115, 51>>                                      \* "s3"

AWS_SERVICE_EMPTY_PAYLOAD ==                                    \* "UNSIGNED-PAYLOAD"
  <<85, 78, 83, 73, 71, 78, 69, 68, 45, 80, 65, 89, 76, 79, 65, 68>>

AWS_SIGN_ALGORITHM ==                                           \* "AWS4-HMAC-SHA256"
  <<65, 87, 83, 52, 45, 72, 77, 65, 67, 45, 83, 72, 65, 50, 53, 54>>

GET == <<71, 69, 84>>
PUT == <<80, 85, 84>>
HEAD == <<72, 69, 65, 68>>

HTTP == <<104, 116, 116, 112>>
HTTPS == <<104, 116, 116, 112, 115>>

----------------------------------------------------------------------------
(* The clock: Utc::now() and its two renderings *)

\* the DateTime<Utc> read t seconds after 2026-11-02T23:59:59Z
UtcNow(t) ==
  LET secs == 86399 + t
  IN [year |-> 2026, month |-> 11, day |-> 2 + (secs \div 86400),
      hour |-> (secs % 86400) \div 3600, minute |-> (secs % 3600) \div 60,
      second |-> secs % 60]

\* now.format("%Y%m%d")
DateStamp(now) == Pad(now.year, 4) \o Pad(now.month, 2) \o Pad(now.day, 2)

\* now.format("%Y%m%dT%H%M%SZ")
AmzDate(now) ==
  DateStamp(now) \o <<84>> \o Pad(now.hour, 2) \o Pad(now.minute, 2)
    \o Pad(now.second, 2) \o <<90>>

----------------------------------------------------------------------------
(* http::Uri, HeaderName, HeaderValue *)

\* index of the first byte of s that is in set, or Len(s) + 1
FirstIn(s, set) ==
  IF \E i \in 1..Len(s) : s[i] \in set
  THEN CHOOSE i \in 1..Len(s) : s[i] \in set /\ \A j \in 1..(i - 1) : s[j] \notin set
  ELSE Len(s) + 1

AlphaNum == (48..57) \cup (65..90) \cup (97..122)

\* bytes Authority::parse accepts (URI_CHARS without the delimiters / ? # [ ] %)
AuthorityBytes == AlphaNum \cup {33, 36, 38, 39, 40, 41, 42, 43, 44, 45, 46, 58, 59, 61, 64, 95, 126}

\* bytes PathAndQuery::from_shared accepts in the path, and in the query
PathBytes == {33} \cup (36..59) \cup {61} \cup (64..95) \cup (97..122) \cup {124, 126, 34, 123, 125}
QueryBytes == {33} \cup (36..59) \cup {61} \cup (63..126)

\* PathAndQuery::from_shared on what follows the authority: [ok, len: the
\* bytes kept, the fragment dropped]
PathAndQuery(t) ==
  LET frag == FirstIn(t, {35})
      mark == FirstIn(SubSeq(t, 1, frag - 1), {63})
  IN [ok |-> (\A i \in 1..(mark - 1) : t[i] \in PathBytes)
             /\ (\A i \in (mark + 1)..(frag - 1) : t[i] \in QueryBytes),
      len |-> frag - 1]

\* Authority::parse and Authority::host on the bytes before the path: [ok, host]
Authority(a) ==
  LET at == IF \E i \in 1..Len(a) : a[i] = 64
            THEN CHOOSE i \in 1..Len(a) : a[i] = 64 /\ \A j \in (i + 1)..Len(a) : a[j] # 64
            ELSE 0
      host_port == SubSeq(a, at + 1, Len(a))
  IN [ok |-> (\A i \in 1..Len(a) : a[i] \in AuthorityBytes)
             /\ Cardinality({i \in 1..Len(host_port) : host_port[i] = 58}) <= 1
             /\ ~(Len(a) > 0 /\ at = Len(a)),
      host |-> SubSeq(host_port, 1, FirstIn(host_port, {58}) - 1)]

\* Scheme2::parse, for http and https: the scheme's length, 0 when there is none
SchemeLen(s) ==
  IF StartsWith(ToLower(s), HTTP \o <<58, 47, 47>>) THEN Len(HTTP)
  ELSE IF StartsWith(ToLower(s), HTTPS \o <<58, 47, 47>>) THEN Len(HTTPS)
  ELSE 0

\* parse_full, given where the scheme and the authority end
ParseFull(s, skip, authority_end) ==
  LET authority == Authority(SubSeq(s, skip + 1, authority_end))
      tail == PathAndQuery(SubSeq(s, authority_end + 1, Len(s)))
  IN IF ~authority.ok
        \/ (skip = 0 /\ authority_end # Len(s))
        \/ (skip # 0 /\ authority_end = skip)
        \/ ~tail.ok
     THEN [ok |-> FALSE, scheme |-> None, host |-> None, text |-> <<>>]
     ELSE [ok |-> TRUE,
           scheme |-> IF skip = 0 THEN None ELSE Some(ToLower(SubSeq(s, 1, skip - 3))),
           host |-> Some(authority.host),
           text |-> SubSeq(s, 1, authority_end + tail.len)]

\* Uri::from_str, for the http and https schemes and a reg-name or IPv4 host:
\* [ok, scheme: Option, host: Option, text: the URI kept]
UriFromStr(s) ==
  IF s = <<>> THEN [ok |-> FALSE, scheme |-> None, host |-> None, text |-> <<>>]
  ELSE IF s[1] = 47
       THEN [ok |-> PathAndQuery(s).ok, scheme |-> None, host |-> None,
             text |-> SubSeq(s, 1, PathAndQuery(s).len)]
  ELSE ParseFull(s, IF SchemeLen(s) = 0 THEN 0 ELSE SchemeLen(s) + 3,
                 (IF SchemeLen(s) = 0 THEN 0 ELSE SchemeLen(s) + 3)
                 + FirstIn(SubSeq(s, (IF SchemeLen(s) = 0 THEN 0 ELSE SchemeLen(s) + 3) + 1,
                                  Len(s)), {47, 63, 35}) - 1)

\* HeaderName::from_str accepts a non-empty token (and lower-cases it)
HeaderNameOk(key) ==
  key # <<>> /\ \A i \in 1..Len(key) :
     key[i] \in AlphaNum \cup {33, 35, 36, 37, 38, 39, 42, 43, 45, 46, 94, 95, 96, 124, 126}

\* HeaderValue::from_str accepts visible bytes and tab
HeaderValueOk(value) ==
  \A i \in 1..Len(value) : (value[i] >= 32 /\ value[i] # 127) \/ value[i] = 9

\* HeaderMap::insert: the entries of that name are replaced by the one value
HeaderInsert(map, name, value) ==
  Append(SelectSeq(map, LAMBDA e : e[1] # name), <<name, value>>)

----------------------------------------------------------------------------
(* chrono: DateTime<Utc> as [year, month, day, hour, minute, second] *)

\* Datelike::weekday, 0 for Sunday
Weekday(dt) ==
  LET y == IF dt.month < 3 THEN dt.year - 1 ELSE dt.year
      t == <<0, 3, 2, 5, 0, 3, 5, 1, 4, 6, 2, 4>>
  IN (y + (y \div 4) - (y \div 100) + (y \div 400) + t[dt.month] + dt.day) % 7

\* %A: Sunday, Monday, Tuesday, Wednesday, Thursday, Friday, Saturday
WeekdayNames ==
  <<<<83, 117, 110, 100, 97, 121>>,
    <<77, 111, 110, 100, 97, 121>>,
    <<84, 117, 101, 115, 100, 97, 121>>,
    <<87, 101, 100, 110, 101, 115, 100, 97, 121>>,
    <<84, 104, 117, 114, 115, 100, 97, 121>>,
    <<70, 114, 105, 100, 97, 121>>,
    <<83, 97, 116, 117, 114, 100, 97, 121>>>>

\* %b: Jan, Feb, Mar, Apr, May, Jun, Jul, Aug, Sep, Oct, Nov, Dec
MonthNames ==
  <<<<74, 97, 110>>,
    <<70, 101, 98>>,
    <<77, 97, 114>>,
    <<65, 112, 114>>,
    <<77, 97, 121>>,
    <<74, 117, 110>>,
    <<74, 117, 108>>,
    <<65, 117, 103>>,
    <<83, 101, 112>>,
    <<79, 99, 116>>,
    <<78, 111, 118>>,
    <<68, 101, 99>>>>

\* datetime.format("%A, %d %b %Y %H:%M:%S GMT")
FormatHttpDate(dt) ==
  WeekdayNames[Weekday(dt) + 1] \o <<44, 32>> \o Pad(dt.day, 2) \o <<32>>
    \o MonthNames[dt.month] \o <<32>> \o Pad(dt.year, 4) \o <<32>>
    \o Pad(dt.hour, 2) \o <<58>> \o Pad(dt.minute, 2) \o <<58>> \o Pad(dt.second, 2)
    \o <<32, 71, 77, 84>>                                               \* " GMT"

----------------------------------------------------------------------------
(* ContentHeaders and ConditionalHeaders.  An enum value is [tag, arg]. *)

\* the directive text of one CacheControl value
cc_str(cc) ==
  CASE cc.tag = "MaxAge" ->   \* "max-age="
         <<109, 97, 120, 45, 97, 103, 101, 61>> \o IntToString(cc.arg)
    [] cc.tag = "SMaxAge" ->   \* "s-maxage="
         <<115, 45, 109, 97, 120, 97, 103, 101, 61>> \o IntToString(cc.arg)
    [] cc.tag = "MustRevalidate" ->   \* "must-revalidate"
         <<109, 117, 115, 116, 45, 114, 101, 118, 97, 108, 105, 100, 97, 116, 101>>
    [] cc.tag = "ProxyRevalidate" ->   \* "proxy-revalidate"
         <<112, 114, 111, 120, 121, 45, 114, 101, 118, 97, 108, 105, 100, 97, 116, 101>>
    [] cc.tag = "Private" -> <<112, 114, 105, 118, 97, 116, 101>>   \* "private"
    [] cc.tag = "Public" -> <<112, 117, 98, 108, 105, 99>>   \* "public"
    [] cc.tag = "MustUnderstand" ->   \* "must-understand"
         <<109, 117, 115, 116, 45, 117, 110, 100, 101, 114, 115, 116, 97, 110, 100>>
    [] cc.tag = "NoTransform" ->   \* "no-transform"
         <<110, 111, 45, 116, 114, 97, 110, 115, 102, 111, 114, 109>>
    [] cc.tag = "Immutable" -> <<105, 109, 109, 117, 116, 97, 98, 108, 101>>   \* "immutable"
    [] cc.tag = "StaleWhileRevalidate" ->   \* "stale-while-revalidate="
         <<115, 116, 97, 108, 101, 45, 119, 104, 105, 108, 101, 45, 114, 101, 118, 97, 108, 105,
           100, 97, 116, 101, 61>> \o IntToString(cc.arg)
    [] cc.tag = "StaleIfError" ->   \* "stale-if-error="
         <<115, 116, 97, 108, 101, 45, 105, 102, 45, 101, 114, 114, 111, 114,
           61>> \o IntToString(cc.arg)
    [] cc.tag = "NoCache" -> <<110, 111, 45, 99, 97, 99, 104, 101>>   \* "no-cache"
    [] cc.tag = "NoStore" -> <<110, 111, 45, 115, 116, 111, 114, 101>>   \* "no-store"
    [] cc.tag = "MaxStale" ->   \* "max-stale="
         <<109, 97, 120, 45, 115, 116, 97, 108, 101, 61>> \o IntToString(cc.arg)
    [] cc.tag = "MinFresh" ->   \* "min-fresh="
         <<109, 105, 110, 45, 102, 114, 101, 115, 104, 61>> \o IntToString(cc.arg)
    [] cc.tag = "OnlyIfCached" ->   \* "only-if-cached"
         <<111, 110, 108, 121, 45, 105, 102, 45, 99, 97, 99, 104, 101, 100>>
    [] OTHER -> cc.arg

RECURSIVE cc_directives_str(_)
\* the directives joined with ", "
cc_directives_str(ccs) ==
  IF Len(ccs) = 1 THEN cc_str(ccs[1])
  ELSE cc_directives_str(SubSeq(ccs, 1, Len(ccs) - 1)) \o <<44, 32>> \o cc_str(ccs[Len(ccs)])

get_cache_control_str(self) ==
  IF self.cache_control = <<>> THEN None ELSE Some(cc_directives_str(self.cache_control))

get_content_disposition_str(self) ==
  IF self.content_disposition = None THEN None
  ELSE LET d == self.content_disposition[1]
       IN Some(CASE d.tag = "Inline" -> <<105, 110, 108, 105, 110, 101>>   \* "inline"
              [] d.tag = "Attachment" ->   \* "attachment"
                   <<97, 116, 116, 97, 99, 104, 109, 101, 110, 116>>
              [] d.tag = "AttachmentWithFile" ->   \* "attachment; filename="
                   <<97, 116, 116, 97, 99, 104, 109, 101, 110, 116, 59, 32, 102, 105, 108, 101,
                     110, 97, 109, 101, 61>> \o d.arg
              [] OTHER -> d.arg)

get_content_encoding_str(self) ==
  IF self.content_encoding = None THEN None
  ELSE LET e == self.content_encoding[1]
       IN Some(CASE e.tag = "GZIP" -> <<103, 122, 105, 112>>   \* "gzip"
              [] e.tag = "Compress" -> <<99, 111, 109, 112, 114, 101, 115, 115>>   \* "compress"
              [] e.tag = "Deflate" -> <<100, 101, 102, 108, 97, 116, 101>>   \* "deflate"
              [] e.tag = "Br" -> <<98, 114>>   \* "br"
              [] e.tag = "ZSTD" -> <<122, 115, 116, 100>>   \* "zstd"
              [] e.tag = "DCB" -> <<100, 99, 98>>   \* "dcb"
              [] e.tag = "DCZ" -> <<100, 99, 122>>   \* "dcz"
              [] OTHER -> e.arg)

\* the range is Option<(start, Option<end>)>
get_range_header(self) ==
  IF self.range = None THEN None
  ELSE Some(<<<<82, 97, 110, 103, 101>>,                                    \* "Range"
              <<98, 121, 116, 101, 115,
                61>> \o IntToString(self.range[1][1]) \o <<45>>   \* "bytes=", "-"
                \o (IF self.range[1][2] = None THEN <<>> ELSE IntToString(self.range[1][2][1]))>>)

\* if let Some(v) = opt { list.push((name, v)) }
push_if_some(name, opt) == IF opt = None THEN <<>> ELSE << <<name, opt[1]>> >>

ContentHeaders_get_headers(self) ==
  push_if_some(<<67, 97, 99, 104, 101, 45, 67, 111, 110, 116, 114, 111, 108>>,
                 get_cache_control_str(self))   \* "Cache-Control"
  \o push_if_some(<<67, 111, 110, 116, 101, 110, 116, 45, 68, 105, 115, 112, 111, 115, 105, 116,
                    105, 111, 110>>, get_content_disposition_str(self))   \* "Content-Disposition"
  \o push_if_some(<<67, 111, 110, 116, 101, 110, 116, 45, 69, 110, 99, 111, 100, 105, 110, 103>>,
                    get_content_encoding_str(self))   \* "Content-Encoding"
  \o push_if_some(<<67, 111, 110, 116, 101, 110, 116, 45, 76, 97, 110, 103, 117, 97, 103, 101>>,
                    self.content_language)   \* "Content-Language"
  \o push_if_some(<<67, 111, 110, 116, 101, 110, 116, 45, 84, 121, 112, 101>>,
                    self.content_type)   \* "Content-Type"
  \o push_if_some(<<69, 120, 112, 105, 114, 101, 115>>,                              \* "Expires"
                  IF self.expires = None THEN None ELSE Some(FormatHttpDate(self.expires[1])))
  \o push_if_some(<<67, 111, 110, 116, 101, 110, 116, 45, 77, 68, 53>>,
                    self.content_md5)   \* "Content-MD5"
  \o (IF get_range_header(self) = None THEN <<>> ELSE <<get_range_header(self)[1]>>)

get_query(self) ==
  push_if_some(<<114, 101, 115, 112, 111, 110, 115, 101, 45, 99, 97, 99, 104, 101, 45, 99, 111,
                 110, 116, 114, 111, 108>>,
                  get_cache_control_str(self))   \* "response-cache-control"
  \o push_if_some(<<114, 101, 115, 112, 111, 110, 115, 101, 45, 99, 111, 110, 116, 101, 110, 116,
                    45, 100, 105, 115, 112, 111, 115, 105, 116, 105, 111, 110>>,
                  get_content_disposition_str(self))   \* "response-content-disposition"
  \o push_if_some(<<114, 101, 115, 112, 111, 110, 115, 101, 45, 99, 111, 110, 116, 101, 110, 116,
                    45, 101, 110, 99, 111, 100, 105, 110, 103>>,
                  get_content_encoding_str(self))   \* "response-content-encoding"
  \o push_if_some(<<114, 101, 115, 112, 111, 110, 115, 101, 45, 99, 111, 110, 116, 101, 110, 116,
                    45, 108, 97, 110, 103, 117, 97, 103, 101>>,
                  self.content_language)   \* "response-content-language"
  \o push_if_some(<<114, 101, 115, 112, 111, 110, 115, 101, 45, 99, 111, 110, 116, 101, 110, 116,
                    45, 116, 121, 112, 101>>,
                  self.content_type)   \* "response-content-type"
  \o push_if_some(<<114, 101, 115, 112, 111, 110, 115, 101, 45, 101, 120, 112, 105, 114, 101, 115>>,
                  IF self.expires = None THEN None ELSE Some(FormatHttpDate(self.expires[1])))   \* "response-expires"

ConditionalHeaders_get_headers(self) ==
  push_if_some(<<73, 102, 45, 77, 97, 116, 99, 104>>, self.if_match)   \* "If-Match"
  \o push_if_some(<<73, 102, 45, 77, 111, 100, 105, 102, 105, 101, 100, 45, 83, 105, 110, 99,
                    101>>,   \* "If-Modified-Since"
                  IF self.if_modified_since = None THEN None ELSE Some(FormatHttpDate(self.if_modified_since[1])))
  \o push_if_some(<<73, 102, 45, 78, 111, 110, 101, 45, 77, 97, 116, 99, 104>>,
                    self.if_none_match)   \* "If-None-Match"
  \o push_if_some(<<73, 102, 45, 85, 110, 109, 111, 100, 105, 102, 105, 101, 100, 45, 83, 105,
                    110, 99, 101>>,   \* "If-Unmodified-Since"
                  IF self.if_unmodified_since = None THEN None ELSE Some(FormatHttpDate(self.if_unmodified_since[1])))

ContentHeaders_default ==
  [cache_control |-> <<>>, content_disposition |-> None, content_encoding |-> None,
   content_language |-> None, content_type |-> None, expires |-> None, range |-> None,
   content_md5 |-> None]

ConditionalHeaders_default ==
  [if_match |-> None, if_modified_since |-> None, if_none_match |-> None,
   if_unmodified_since |-> None]

----------------------------------------------------------------------------
(* XAmzHeadersBuilder *)

XAmzHeadersBuilder_default ==
  [checksum_mode |-> FALSE, expected_bucket_owner |-> None, request_payer |-> FALSE,
   encryption_customer_algorithm |-> None, encryption_customer_key |-> None,
   encryption_customer_key_md5 |-> None, encryption_algorithm |-> None,
   encryption_kms_key_id |-> None, encryption_bucket_key |-> FALSE,
   encryption_context |-> None, object_lock_legal_hold |-> FALSE,
   object_lock_mode |-> None, object_lock_retain_until |-> None, canned_acl |-> None,
   checksum |-> None, grants |-> <<>>, storage_class |-> None, tagging |-> <<>>,
   website_redirect_location |-> None, write_offset |-> None, headers |-> <<>>]

\* str::trim, for the ASCII white space
Trim(s) ==
  LET ws == {9, 10, 11, 12, 13, 32}
      keep == {i \in 1..Len(s) : s[i] \notin ws}
  IN IF keep = {} THEN <<>>
     ELSE SubSeq(s, CHOOSE i \in keep : \A j \in keep : i <= j,
                 CHOOSE i \in keep : \A j \in keep : i >= j)

add_header(self, key, value) ==
  [self EXCEPT !.headers = Append(@, <<ToLower(key), Trim(value)>>)]

get_encryption_algorithm(self) ==
  IF self.encryption_algorithm = None THEN None
  ELSE LET a == self.encryption_algorithm[1]
       IN Some(CASE a.tag = "AES256" -> <<65, 69, 83, 50, 53, 54>>   \* "AES256"
              [] a.tag = "KMS" -> <<97, 119, 115, 58, 107, 109, 115>>   \* "aws:kms"
              [] a.tag = "KMSDSSE" ->   \* "aws:kms:dsse"
                   <<97, 119, 115, 58, 107, 109, 115, 58, 100, 115, 115, 101>>
              [] OTHER -> a.arg)

get_canned_acl(self) ==
  IF self.canned_acl = None THEN None
  ELSE LET a == self.canned_acl[1]
       IN Some(CASE a.tag = "Private" -> <<112, 114, 105, 118, 97, 116, 101>>   \* "private"
              [] a.tag = "PublicRead" ->   \* "public-read"
                   <<112, 117, 98, 108, 105, 99, 45, 114, 101, 97, 100>>
              [] a.tag = "PublicReadWrite" ->   \* "public-read-write"
                   <<112, 117, 98, 108, 105, 99, 45, 114, 101, 97, 100, 45, 119, 114, 105, 116,
                     101>>
              [] a.tag = "AuthRead" ->   \* "authenticated-read"
                   <<97, 117, 116, 104, 101, 110, 116, 105, 99, 97, 116, 101, 100, 45, 114, 101,
                     97, 100>>
              [] a.tag = "AWSExecRead" ->   \* "aws-exec-read"
                   <<97, 119, 115, 45, 101, 120, 101, 99, 45, 114, 101, 97, 100>>
              [] a.tag = "BucketOwnerRead" ->   \* "bucket-owner-read"
                   <<98, 117, 99, 107, 101, 116, 45, 111, 119, 110, 101, 114, 45, 114, 101, 97,
                     100>>
              [] a.tag = "BucketOwnerFullControl" ->   \* "bucket-owner-full-control"
                   <<98, 117, 99, 107, 101, 116, 45, 111, 119, 110, 101, 114, 45, 102, 117, 108,
                     108, 45, 99, 111, 110, 116, 114, 111, 108>>
              [] OTHER -> a.arg)

\* XAmzChecksum is [tag, arg: the sum] and, for Checksum(k, sum), [tag, key, arg]
get_checksum_header(self) ==
  IF self.checksum = None THEN None
  ELSE LET c == self.checksum[1]
       IN Some(<<<<120, 45, 97, 109, 122, 45, 99, 104, 101, 99, 107, 115, 117, 109,
                   45>>       \* "x-amz-checksum-"
                   \o (CASE c.tag = "CRC32" -> <<99, 114, 99, 51, 50>>   \* "crc32"
                         [] c.tag = "CRC32C" -> <<99, 114, 99, 51, 50, 99>>   \* "crc32c"
                         [] c.tag = "CRC64NVME" ->   \* "crc64nvme"
                              <<99, 114, 99, 54, 52, 110, 118, 109, 101>>
                         [] c.tag = "SHA1" -> <<115, 104, 97, 49>>   \* "sha1"
                         [] c.tag = "Sha256" -> <<115, 104, 97, 50, 53, 54>>   \* "sha256"
                         [] OTHER -> c.key),
                 c.arg>>)

get_grants_headers(self) ==
  [i \in 1..Len(self.grants) |->
     <<(CASE self.grants[i] = "FullControl" ->   \* "x-amz-grant-full-control"
               <<120, 45, 97, 109, 122, 45, 103, 114, 97, 110, 116, 45, 102, 117, 108, 108, 45,
                 99, 111, 110, 116, 114, 111, 108>>
          [] self.grants[i] = "Read" ->   \* "x-amz-grant-read"
               <<120, 45, 97, 109, 122, 45, 103, 114, 97, 110, 116, 45, 114, 101, 97, 100>>
          [] self.grants[i] = "ReadACP" ->   \* "x-amz-grant-read-acp"
               <<120, 45, 97, 109, 122, 45, 103, 114, 97, 110, 116, 45, 114, 101, 97, 100, 45,
                 97, 99, 112>>
          [] self.grants[i] = "WriteACP" ->   \* "x-amz-grant-write-acp"
               <<120, 45, 97, 109, 122, 45, 103, 114, 97, 110, 116, 45, 119, 114, 105, 116, 101,
                 45, 97, 99, 112>>
       ), <<>>>>]

get_storage_class(self) ==
  IF self.storage_class = None THEN None
  ELSE LET c == self.storage_class[1]
       IN Some(CASE c.tag = "Standard" -> <<83, 84, 65, 78, 68, 65, 82, 68>>   \* "STANDARD"
              [] c.tag = "ReducedRedundancy" ->   \* "REDUCED_REDUNDANCY"
                   <<82, 69, 68, 85, 67, 69, 68, 95, 82, 69, 68, 85, 78, 68, 65, 78, 67, 89>>
              [] c.tag = "StandardIA" ->   \* "STANDARD_IA"
                   <<83, 84, 65, 78, 68, 65, 82, 68, 95, 73, 65>>
              [] c.tag = "OnezoneIA" -> <<79, 78, 69, 90, 79, 78, 69, 95, 73, 65>>   \* "ONEZONE_IA"
              [] c.tag = "IntelligentTiering" ->   \* "INTELLIGENT_TIERING"
                   <<73, 78, 84, 69, 76, 76, 73, 71, 69, 78, 84, 95, 84, 73, 69, 82, 73, 78, 71>>
              [] c.tag = "Glacier" -> <<71, 76, 65, 67, 73, 69, 82>>   \* "GLACIER"
              [] c.tag = "DeepArchive" ->   \* "DEEP_ARCHIVE"
                   <<68, 69, 69, 80, 95, 65, 82, 67, 72, 73, 86, 69>>
              [] c.tag = "Outposts" -> <<79, 85, 84, 80, 79, 83, 84, 83>>   \* "OUTPOSTS"
              [] c.tag = "GlacierIR" -> <<71, 76, 65, 67, 73, 69, 82, 95, 73, 82>>   \* "GLACIER_IR"
              [] c.tag = "Snow" -> <<83, 78, 79, 87>>   \* "SNOW"
              [] c.tag = "ExpressOneZone" ->   \* "EXPRESS_ONEZONE"
                   <<69, 88, 80, 82, 69, 83, 83, 95, 79, 78, 69, 90, 79, 78, 69>>
              [] OTHER -> c.arg)

get_tagging(self) ==
  IF self.tagging = <<>> THEN None
  ELSE Some(Join([i \in 1..Len(self.tagging) |->
                    self.tagging[i][1] \o <<61>> \o self.tagging[i][2]], <<38>>))

\* if self.flag { headers.push((name, value)) }
push_if(flag, name, value) == IF flag THEN << <<name, value>> >> ELSE <<>>

\* XAmzHeadersBuilder::build: the headers of the XAmzHeaders it returns
XAmzHeadersBuilder_build(self) ==
  push_if(self.checksum_mode,   \* "x-amz-checksum-mode", "ENABLED"
            <<120, 45, 97, 109, 122, 45, 99, 104, 101, 99, 107, 115, 117, 109, 45, 109, 111, 100,
              101>>,
            <<69, 78, 65, 66, 76, 69, 68>>)
  \o push_if_some(   \* "x-amz-expected-bucket-owner"
       <<120, 45, 97, 109, 122, 45, 101, 120, 112, 101, 99, 116, 101, 100, 45, 98, 117, 99, 107,
         101, 116, 45, 111, 119, 110, 101, 114>>,
       self.expected_bucket_owner)
  \o push_if(self.request_payer,   \* "x-amz-request-payer", "requester"
            <<120, 45, 97, 109, 122, 45, 114, 101, 113, 117, 101, 115, 116, 45, 112, 97, 121,
              101, 114>>,
            <<114, 101, 113, 117, 101, 115, 116, 101, 114>>)
  \o push_if_some(   \* "x-amz-server-side-encryption-customer-algorithm"
       <<120, 45, 97, 109, 122, 45, 115, 101, 114, 118, 101, 114, 45, 115, 105, 100, 101, 45,
         101, 110, 99, 114, 121, 112, 116, 105, 111, 110, 45, 99, 117, 115, 116, 111, 109, 101, 114, 45, 97, 108, 103, 111, 114, 105, 116, 104, 109>>,
       self.encryption_customer_algorithm)
  \o push_if_some(   \* "x-amz-server-side-encryption-customer-key"
       <<120, 45, 97, 109, 122, 45, 115, 101, 114, 118, 101, 114, 45, 115, 105, 100, 101, 45,
         101, 110, 99, 114, 121, 112, 116, 105, 111, 110, 45, 99, 117, 115, 116, 111, 109, 101, 114, 45, 107, 101, 121>>,
       self.encryption_customer_key)
  \o push_if_some(   \* "x-amz-server-side-encryption-customer-key-MD5"
       <<120, 45, 97, 109, 122, 45, 115, 101, 114, 118, 101, 114, 45, 115, 105, 100, 101, 45,
         101, 110, 99, 114, 121, 112, 116, 105, 111, 110, 45, 99, 117, 115, 116, 111, 109, 101, 114, 45, 107, 101, 121, 45, 77, 68, 53>>,
       self.encryption_customer_key_md5)
  \o push_if_some(   \* "x-amz-server-side-encryption"
       <<120, 45, 97, 109, 122, 45, 115, 101, 114, 118, 101, 114, 45, 115, 105, 100, 101, 45,
         101, 110, 99, 114, 121, 112, 116, 105, 111, 110>>,
       get_encryption_algorithm(self))
  \o push_if_some(   \* "x-amz-server-side-encryption-aws-kms-key-id"
       <<120, 45, 97, 109, 122, 45, 115, 101, 114, 118, 101, 114, 45, 115, 105, 100, 101, 45,
         101, 110, 99, 114, 121, 112, 116, 105, 111, 110, 45, 97, 119, 115, 45, 107, 109, 115, 45, 107, 101, 121, 45, 105, 100>>,
       self.encryption_kms_key_id)
  \o push_if(self.encryption_bucket_key,   \* "x-amz-server-side-encryption-bucket-key-enabled", "true"
            <<120, 45, 97, 109, 122, 45, 115, 101, 114, 118, 101, 114, 45, 115, 105, 100, 101,
              45, 101, 110, 99, 114, 121, 112, 116, 105, 111, 110, 45, 98, 117, 99, 107, 101, 116, 45, 107, 101, 121, 45, 101, 110, 97, 98, 108, 101, 100>>,
            <<116, 114, 117, 101>>)
  \o push_if_some(   \* "x-amz-server-side-encryption-context"
       <<120, 45, 97, 109, 122, 45, 115, 101, 114, 118, 101, 114, 45, 115, 105, 100, 101, 45,
         101, 110, 99, 114, 121, 112, 116, 105, 111, 110, 45, 99, 111, 110, 116, 101, 120, 116>>,
       self.encryption_context)
  \o push_if_some(   \* "x-amz-acl"
       <<120, 45, 97, 109, 122, 45, 97, 99, 108>>,
       get_canned_acl(self))
  \o (IF get_checksum_header(self) = None THEN <<>> ELSE <<get_checksum_header(self)[1]>>)
  \o get_grants_headers(self)
  \o push_if_some(   \* "x-amz-storage-class"
       <<120, 45, 97, 109, 122, 45, 115, 116, 111, 114, 97, 103, 101, 45, 99, 108, 97, 115, 115>>,
       get_storage_class(self))
  \o push_if_some(   \* "x-amz-tagging"
       <<120, 45, 97, 109, 122, 45, 116, 97, 103, 103, 105, 110, 103>>,
       get_tagging(self))
  \o push_if_some(   \* "x-amz-website-redirect-location"
       <<120, 45, 97, 109, 122, 45, 119, 101, 98, 115, 105, 116, 101, 45, 114, 101, 100, 105,
         114, 101, 99, 116, 45, 108, 111, 99, 97, 116, 105, 111, 110>>,
       self.website_redirect_location)
  \o push_if_some(   \* "x-amz-write-offset-bytes"
       <<120, 45, 97, 109, 122, 45, 119, 114, 105, 116, 101, 45, 111, 102, 102, 115, 101, 116,
         45, 98, 121, 116, 101, 115>>,
       (IF self.write_offset = None THEN None ELSE Some(IntToString(self.write_offset[1]))))
  \o self.headers

----------------------------------------------------------------------------
(* S3RequestBuilder *)

new(method_, action_, access_key, secret_key, region, endpoint) ==
  [method |-> method_, action |-> action_, query |-> <<>>, headers |-> <<>>,
   x_amz_headers |-> <<>>, access_key |-> access_key, secret_key |-> secret_key,
   region |-> region, endpoint |-> endpoint, scheme |-> HTTPS, body |-> None,
   \* history, not fields of the struct: the path the action was given as and
   \* the arguments query() was called with
   path |-> action_, queried |-> <<>>]

method(self, method_) == [self EXCEPT !.method = method_]

action(self, action_) ==
  [self EXCEPT !.action = percent_encode_path(action_), !.path = action_]

query(self, key, value) ==
  LET str_value == IF value # None THEN percent_encode_query(value[1])
                   ELSE percent_encode_query(<<>>)
  IN [self EXCEPT !.query = Append(@, <<percent_encode_query(key), str_value>>),
                  !.queried = Append(@, <<key, value>>)]

header(self, key, value) ==
  IF StartsWith(key, <<120, 45, 97, 109, 122>>)                    \* "x-amz"
  THEN [self EXCEPT !.x_amz_headers = Append(@, <<key, value>>)]
  ELSE [self EXCEPT !.headers = Append(@, <<key, value>>)]

RECURSIVE headers(_, _)
headers(self, hs) ==
  IF hs = <<>> THEN self ELSE headers(header(self, hs[1][1], hs[1][2]), Tail(hs))

body(self, b) == [self EXCEPT !.body = Some(b)]

scheme(self, scheme_) == [self EXCEPT !.scheme = scheme_]

set_content_headers(self, content) ==
  [self EXCEPT !.headers = @ \o ContentHeaders_get_headers(content)]

RECURSIVE query_each(_, _)
\* for (key, value) in query { self.query(&key, Some(&value)); }
query_each(self, pairs) ==
  IF pairs = <<>> THEN self
  ELSE query_each(query(self, pairs[1][1], Some(pairs[1][2])), Tail(pairs))

set_content_query(self, content) == query_each(self, get_query(content))

set_conditional_headers(self, conds) ==
  [self EXCEPT !.headers = @ \o ConditionalHeaders_get_headers(conds)]

\* xamz is the XAmzHeaders value: its headers
set_x_amz_headers(self, xamz) == [self EXCEPT !.x_amz_headers = @ \o xamz]

set_auth(self, access_key, secret_key, region, endpoint) ==
  [self EXCEPT !.access_key = access_key, !.secret_key = secret_key,
               !.region = region, !.endpoint = endpoint]

----------------------------------------------------------------------------
(* S3RequestBuilder::build, local by local *)

\* canonical_query without the sort: the pairs in the order they were added
canonical_query_as_added(self) ==
  IF self.query = <<>> THEN <<>>
  ELSE Join([i \in 1..Len(self.query) |-> self.query[i][1] \o <<61>> \o self.query[i][2]],
            <<38>>)

\* the query string for the canonical request (self.query is sorted in place)
canonical_query(self) ==
  IF self.query = <<>> THEN <<>>
  ELSE LET sorted == SortPairs(self.query)
       IN Join([i \in 1..Len(sorted) |-> sorted[i][1] \o <<61>> \o sorted[i][2]], <<38>>)

payload_hash(self) ==
  IF self.body # None THEN HexEncode(Sha256Digest(self.body[1]))
  ELSE HexEncode(Sha256Digest(AWS_SERVICE_EMPTY_PAYLOAD))

\* canonical_headers_vec with the general headers signed as well
canonical_headers_vec_all(self, host, payload_hash_, amz_date) ==
  SortPairs(
    self.x_amz_headers \o self.headers
    \o << <<(<<104, 111, 115, 116>>), host>>,                          \* "host"
          <<(<<120, 45, 97, 109, 122, 45, 99, 111, 110, 116, 101, 110, 116,
               45, 115, 104, 97, 50, 53, 54>>), payload_hash_>>,       \* "x-amz-content-sha256"
          <<(<<120, 45, 97, 109, 122, 45, 100, 97, 116, 101>>), amz_date>> >>)  \* "x-amz-date"

canonical_headers_vec(self, host, payload_hash_, amz_date) ==
  SortPairs(
    (IF self.x_amz_headers = <<>> THEN <<>> ELSE self.x_amz_headers)
    \o << <<(<<104, 111, 115, 116>>), host>>,                          \* "host"
          <<(<<120, 45, 97, 109, 122, 45, 99, 111, 110, 116, 101, 110, 116,
               45, 115, 104, 97, 50, 53, 54>>), payload_hash_>>,       \* "x-amz-content-sha256"
          <<(<<120, 45, 97, 109, 122, 45, 100, 97, 116, 101>>), amz_date>> >>)  \* "x-amz-date"

\* canonical_headers without the push_str("\n") after the join
canonical_headers_unterminated(vec) ==
  Join([i \in 1..Len(vec) |-> vec[i][1] \o <<58>> \o vec[i][2]], <<10>>)

canonical_headers(vec) ==
  Join([i \in 1..Len(vec) |-> vec[i][1] \o <<58>> \o vec[i][2]], <<10>>) \o <<10>>

signed_headers(vec) == Join([i \in 1..Len(vec) |-> vec[i][1]], <<59>>)

canonical_request(self, query_, canonical_headers_, signed_headers_, payload_hash_) ==
  self.method \o <<10, 47>> \o self.action \o <<10>> \o query_ \o <<10>>
    \o canonical_headers_ \o <<10>> \o signed_headers_ \o <<10>> \o payload_hash_

credential_scope(self, date_stamp) ==
  date_stamp \o <<47>> \o self.region \o <<47>> \o AWS_SERVICE
    \o <<47, 97, 119, 115, 52, 95, 114, 101, 113, 117, 101, 115, 116>>  \* "/aws4_request"

\* string_to_sign over the canonical request itself, not its digest
string_to_sign_undigested(amz_date, credential_scope_, canonical_request_) ==
  AWS_SIGN_ALGORITHM \o <<10>> \o amz_date \o <<10>> \o credential_scope_ \o <<10>>
    \o canonical_request_

string_to_sign(amz_date, credential_scope_, canonical_request_) ==
  AWS_SIGN_ALGORITHM \o <<10>> \o amz_date \o <<10>> \o credential_scope_ \o <<10>>
    \o HexEncode(Sha256Digest(canonical_request_))

signing_key(self, date_stamp) ==
  get_signature_key(self.secret_key, date_stamp, self.region, AWS_SERVICE)

signature(signing_key_, string_to_sign_) == HexEncode(hmac_sha256(signing_key_, string_to_sign_))

\* authorization_header with the access key alone as the credential
authorization_header_unscoped(self, credential_scope_, signed_headers_, signature_) ==
  AWS_SIGN_ALGORITHM
    \o <<32, 67, 114, 101, 100, 101, 110, 116, 105, 97, 108, 61>>      \* " Credential="
    \o self.access_key
    \o <<44, 32, 83, 105, 103, 110, 101, 100, 72, 101, 97, 100, 101, 114, 115, 61>>  \* ", SignedHeaders="
    \o signed_headers_
    \o <<44, 32, 83, 105, 103, 110, 97, 116, 117, 114, 101, 61>>      \* ", Signature="
    \o signature_

\* authorization_header with the secret key as the credential
authorization_header_secret(self, credential_scope_, signed_headers_, signature_) ==
  AWS_SIGN_ALGORITHM
    \o <<32, 67, 114, 101, 100, 101, 110, 116, 105, 97, 108, 61>>      \* " Credential="
    \o self.secret_key \o <<47>> \o credential_scope_
    \o <<44, 32, 83, 105, 103, 110, 101, 100, 72, 101, 97, 100, 101, 114, 115, 61>>  \* ", SignedHeaders="
    \o signed_headers_
    \o <<44, 32, 83, 105, 103, 110, 97, 116, 117, 114, 101, 61>>      \* ", Signature="
    \o signature_

authorization_header(self, credential_scope_, signed_headers_, signature_) ==
  AWS_SIGN_ALGORITHM
    \o <<32, 67, 114, 101, 100, 101, 110, 116, 105, 97, 108, 61>>      \* " Credential="
    \o self.access_key \o <<47>> \o credential_scope_
    \o <<44, 32, 83, 105, 103, 110, 101, 100, 72, 101, 97, 100, 101, 114, 115, 61>>  \* ", SignedHeaders="
    \o signed_headers_
    \o <<44, 32, 83, 105, 103, 110, 97, 116, 117, 114, 101, 61>>      \* ", Signature="
    \o signature_

\* uri with the builder's configured scheme, whatever the endpoint's
uri_configured_scheme(self, scheme_, host, query_) ==
  IF self.query = <<>>
  THEN self.scheme \o <<58, 47, 47>> \o host \o <<47>> \o self.action
  ELSE self.scheme \o <<58, 47, 47>> \o host \o <<47>> \o self.action \o <<63>> \o query_

uri(self, scheme_, host, query_) ==
  IF self.query = <<>>
  THEN scheme_ \o <<58, 47, 47>> \o host \o <<47>> \o self.action
  ELSE scheme_ \o <<58, 47, 47>> \o host \o <<47>> \o self.action \o <<63>> \o query_

\* Request::builder() with its four header() calls: the header map so far
builder_headers(payload_hash_, amz_date, authorization_header_, body_) ==
  << <<(<<120, 45, 97, 109, 122, 45, 99, 111, 110, 116, 101, 110, 116,
          45, 115, 104, 97, 50, 53, 54>>), payload_hash_>>,            \* "x-amz-content-sha256"
     <<(<<120, 45, 97, 109, 122, 45, 100, 97, 116, 101>>), amz_date>>, \* "x-amz-date"
     <<(<<97, 117, 116, 104, 111, 114, 105, 122, 97, 116, 105, 111, 110>>),
       authorization_header_>>,                                         \* "authorization"
     <<(<<99, 111, 110, 116, 101, 110, 116, 45, 108, 101, 110, 103, 116, 104>>),
       IntToString(Len(body_))>> >>                                     \* "content-length"

RECURSIVE insert_headers(_, _)
\* the loop over self.headers: [ok, headers], ok FALSE when a name or a value
\* is refused (the ? operators)
insert_headers(map, hs) ==
  IF hs = <<>> THEN [ok |-> TRUE, headers |-> map]
  ELSE IF ~HeaderNameOk(hs[1][1]) \/ ~HeaderValueOk(hs[1][2])
       THEN [ok |-> FALSE, headers |-> <<>>]
       ELSE insert_headers(HeaderInsert(map, ToLower(hs[1][1]), hs[1][2]), Tail(hs))

\* no build() call has returned
NoBuild ==
  [status |-> "none", error |-> "", now |-> <<>>, amz_date |-> <<>>, date_stamp |-> <<>>,
   query |-> <<>>, payload_hash |-> <<>>, scheme |-> <<>>, host |-> <<>>,
   canonical_headers |-> <<>>, signed_headers |-> <<>>, canonical_request |-> <<>>,
   credential_scope |-> <<>>, string_to_sign |-> <<>>, signing_key |-> <<>>,
   signature |-> <<>>, authorization_header |-> <<>>,
   method |-> <<>>, uri |-> <<>>, headers |-> <<>>, body |-> <<>>]

\* the Result of build() once its locals l are computed: the Request::builder()
\* chain, the loop over self.headers and builder.body()
emit(self, l, uri_, first) ==
  IF uri_.ok /\ (\A i \in 1..Len(first) : HeaderValueOk(first[i][2]))
  THEN IF insert_headers(first, self.headers).ok
       THEN [l EXCEPT !.status = "ok", !.method = self.method, !.uri = uri_.text,
                      !.headers = insert_headers(first, self.headers).headers,
                      !.body = IF self.body # None THEN self.body[1] ELSE <<>>]
       ELSE [l EXCEPT !.status = "err", !.error = "header"]
  ELSE [l EXCEPT !.status = "err", !.error = "request"]

\* build(&mut self) at the clock reading now: [self: the builder afterwards,
\* ret: the locals computed and the Result returned].  Each step adds the
\* locals of a few statements to the record l of the locals so far.
build(self, now) ==
  LET host_uri == UriFromStr(self.endpoint)
      time(l) == [l EXCEPT !.now = now, !.date_stamp = DateStamp(now),
                           !.amz_date = AmzDate(now)]
      payload(l) == [l EXCEPT !.query = canonical_query(self),
                              !.payload_hash = payload_hash(self)]
      resolve(l) ==
        [l EXCEPT !.scheme = IF host_uri.scheme = None THEN self.scheme
                             ELSE host_uri.scheme[1],
                  !.host = host_uri.host[1]]
      canonical(l) ==
        [l EXCEPT
           !.canonical_headers =
              canonical_headers(canonical_headers_vec(self, l.host, l.payload_hash, l.amz_date)),
           !.signed_headers =
              signed_headers(canonical_headers_vec(self, l.host, l.payload_hash, l.amz_date))]
      request_(l) ==
        [l EXCEPT
           !.canonical_request =
              canonical_request(self, l.query, l.canonical_headers, l.signed_headers,
                                l.payload_hash),
           !.credential_scope = credential_scope(self, l.date_stamp)]
      to_sign(l) ==
        [l EXCEPT
           !.string_to_sign = string_to_sign(l.amz_date, l.credential_scope, l.canonical_request),
           !.signing_key = signing_key(self, l.date_stamp)]
      sign(l) == [l EXCEPT !.signature = signature(l.signing_key, l.string_to_sign)]
      authorize(l) ==
        [l EXCEPT !.authorization_header =
                     authorization_header(self, l.credential_scope, l.signed_headers,
                                          l.signature)]
      finish(l) ==
        emit(self, l, UriFromStr(uri(self, l.scheme, l.host, l.query)),
             builder_headers(l.payload_hash, l.amz_date, l.authorization_header,
                             IF self.body # None THEN self.body[1] ELSE <<>>))
  IN [self |-> IF self.query = <<>> THEN self ELSE [self EXCEPT !.query = SortPairs(@)],
      ret |->
        IF ~host_uri.ok THEN [NoBuild EXCEPT !.status = "err", !.error = "endpoint"]
        ELSE IF host_uri.host = None
             THEN [NoBuild EXCEPT !.status = "err", !.error = "No host defined"]
        ELSE finish(authorize(sign(to_sign(request_(canonical(resolve(payload(time(NoBuild)))))))))]

----------------------------------------------------------------------------
(* The request types: S3RequestData::into_builder, Ok(builder) as Some, Err as None *)

\* if let Some(x) = &self.field { builder.query(name, Some(x)) }
query_if_some(self, key, field) == IF field = None THEN self ELSE query(self, key, field)

\* GetObjectRequest::into_builder with the part numbers from 0 on accepted
GetObjectRequest_into_builder_from_zero(req, access_key, secret_key, region, endpoint) ==
  LET b0 == new(GET, req.key, access_key, secret_key, region, endpoint)
      part_ok == req.part_number = None
                 \/ (req.part_number[1] >= 0 /\ req.part_number[1] <= 10000)
      b1 == IF req.part_number = None THEN b0
            ELSE query(b0, <<112, 97, 114, 116, 78, 117, 109, 98, 101, 114>>,     \* "partNumber"
                       Some(IntToString(req.part_number[1])))
  IN IF ~part_ok THEN None
     ELSE Some(query_if_some(b1, <<118, 101, 114, 115, 105, 111, 110, 73, 100>>,  \* "versionId"
                             req.version_id))

GetObjectRequest_into_builder(req, access_key, secret_key, region, endpoint) ==
  LET b0 == new(GET, req.key, access_key, secret_key, region, endpoint)
      part_ok == req.part_number = None
                 \/ (req.part_number[1] >= 1 /\ req.part_number[1] <= 10000)
      b1 == IF req.part_number = None THEN b0
            ELSE query(b0, <<112, 97, 114, 116, 78, 117, 109, 98, 101, 114>>,     \* "partNumber"
                       Some(IntToString(req.part_number[1])))
  IN IF ~part_ok THEN None
     ELSE Some(query_if_some(b1, <<118, 101, 114, 115, 105, 111, 110, 73, 100>>,  \* "versionId"
                             req.version_id))

HeadObjectRequest_into_builder(req, access_key, secret_key, region, endpoint) ==
  LET b0 == new(GET, req.key, access_key, secret_key, region, endpoint)
      part_ok == req.part_number = None
                 \/ (req.part_number[1] >= 1 /\ req.part_number[1] <= 10000)
      b1 == IF req.part_number = None THEN b0
            ELSE query(b0, <<112, 97, 114, 116, 78, 117, 109, 98, 101, 114>>,     \* "partNumber"
                       Some(IntToString(req.part_number[1])))
  IN IF ~part_ok THEN None
     ELSE Some(query_if_some(b1, <<86, 101, 114, 115, 105, 111, 110, 73, 100>>,   \* "VersionId"
                             req.version_id))

PutObjectRequest_into_builder(req, access_key, secret_key, region, endpoint) ==
  Some(body(new(PUT, req.key, access_key, secret_key, region, endpoint), req.body))

ListBucketsRequest_into_builder(req, access_key, secret_key, region, endpoint) ==
  LET b0 == new(GET, <<47>>, access_key, secret_key, region, endpoint)
      b1 == query_if_some(b0, <<98, 117, 99, 107, 101, 116, 45, 114, 101, 103, 105, 111,
                                110>>, req.bucket_region)                 \* "bucket-region"
      b2 == query_if_some(b1, <<99, 111, 110, 116, 105, 110, 117, 97, 116, 105, 111, 110,
                                45, 116, 111, 107, 101, 110>>, req.token) \* "continuation-token"
      max_ok == req.max_buckets = None
                \/ (req.max_buckets[1] >= 1 /\ req.max_buckets[1] <= 10000)
      b3 == IF req.max_buckets = None THEN b2
            ELSE query(b2, <<109, 97, 120, 45, 98, 117, 99, 107, 101, 116, 115>>, \* "max-buckets"
                       Some(IntToString(req.max_buckets[1])))
  IN IF ~max_ok THEN None
     ELSE Some(query_if_some(b3, <<112, 114, 101, 102, 105, 120>>, req.prefix))   \* "prefix"

ListObjectsV2Request_into_builder(req, access_key, secret_key, region, endpoint) ==
  LET b0 == query(new(GET, <<47>>, access_key, secret_key, region, endpoint),
                  <<108, 105, 115, 116, 45, 116, 121, 112, 101>>, Some(<<50>>))   \* "list-type", "2"
      b1 == query_if_some(b0, <<99, 111, 110, 116, 105, 110, 117, 97, 116, 105, 111, 110,
                                45, 116, 111, 107, 101, 110>>, req.token) \* "continuation-token"
      b2 == query_if_some(b1, <<100, 101, 108, 105, 109, 105, 116, 101, 114>>,    \* "delimiter"
                          req.delimiter)
      b3 == query_if_some(b2, <<101, 110, 99, 111, 100, 105, 110, 103, 45, 116, 121, 112,
                                101>>, req.encoding_type)                 \* "encoding-type"
      b4 == IF req.fetch_owner
            THEN query(b3, <<102, 101, 116, 99, 104, 45, 111, 119, 110, 101, 114>>, \* "fetch-owner"
                       Some(<<116, 114, 117, 101>>))                              \* "true"
            ELSE b3
      b5 == IF req.max_keys = None THEN b4
            ELSE query(b4, <<109, 97, 120, 45, 107, 101, 121, 115>>,              \* "max-keys"
                       Some(IntToString(req.max_keys[1])))
  IN Some(query_if_some(b5, <<115, 116, 97, 114, 116, 45, 97, 102, 116, 101, 114>>, \* "start-after"
                        req.start_after))

----------------------------------------------------------------------------
(* Inputs *)

\* S3Client::new_client("AK", "SK", "us", "h.io")
S3Client ==
  [access_key |-> <<65, 75>>, secret_key |-> <<83, 75>>, region |-> <<117, 115>>,
   endpoint |-> <<104, 46, 105, 111>>]

\* keys "a:b", "a#b", "a b" with part numbers None, 0 and version "v1"; key "k"
\* with part numbers -1, 1, 10000, 10001 and no version
GetObjectRequests ==
  [key : {<<97, 58, 98>>, <<97, 35, 98>>, <<97, 32, 98>>}, part_number : {None, Some(0)},
   version_id : {Some(<<118, 49>>)}]
  \cup [key : {<<107>>}, part_number : {Some(-1), Some(1), Some(10000), Some(10001)},
        version_id : {None}]

\* key "k" with part number 10000 and version "v1", and with part numbers
\* None, 0, 1, 10001 and no version
HeadObjectRequests ==
  [key : {<<107>>}, part_number : {Some(10000)}, version_id : {Some(<<118, 49>>)}]
  \cup [key : {<<107>>}, part_number : {None, Some(0), Some(1), Some(10001)},
        version_id : {None}]

\* key "a/k", body "xy"
PutObjectRequests == [key : {<<97, 47, 107>>}, body : {<<120, 121>>}]

\* max-buckets 0 and 1 with prefix "a b"; max-buckets None, 10000, 10001 and
\* bucket-region "eu"
ListBucketsRequests ==
  [bucket_region : {None}, token : {None}, max_buckets : {Some(0), Some(1)},
   prefix : {Some(<<97, 32, 98>>)}]
  \cup [bucket_region : {Some(<<101, 117>>)}, token : {None},
        max_buckets : {None, Some(10000), Some(10001)}, prefix : {None}]

\* continuation-token "v1", delimiter "/", fetch-owner
ListObjectsV2Requests ==
  [token : {Some(<<118, 49>>)}, delimiter : {Some(<<47>>)}, encoding_type : {None},
   fetch_owner : {TRUE}, max_keys : {None}, start_after : {None}]

\* method(Method::HEAD)
Methods == {HEAD}

\* action("a b")
Actions == {<<97, 32, 98>>}

\* query("b", None), query("b", Some("1")), query("a b", Some("/"))
QueryPairs ==
  {<<(<<98>>), None>>, <<(<<98>>), Some(<<49>>)>>, <<(<<97, 32, 98>>), Some(<<47>>)>>}

\* header(key, value)
HeaderPairs ==
  {<<(<<120, 45, 97, 109, 122, 45, 97>>), <<118>>>>,                       \* "x-amz-a": "v"
   <<(<<120, 45, 97, 109, 122, 45, 66>>), <<119>>>>,                       \* "x-amz-B": "w"
   <<(<<65, 99, 99, 101, 112, 116>>), <<118>>>>,                           \* "Accept": "v"
   <<(<<97, 99, 99, 101, 112, 116>>), <<119>>>>,                           \* "accept": "w"
   <<(<<99, 111, 110, 116, 101, 110, 116, 45, 108, 101, 110, 103, 116, 104>>),
     <<57>>>>,                                                             \* "content-length": "9"
   <<(<<120, 45, 97, 109, 122, 45, 100, 97, 116, 101>>), <<118>>>>}        \* "x-amz-date": "v"

\* headers(vec)
HeaderVecs ==
  {<< <<(<<65, 99, 99, 101, 112, 116>>), <<118>>>>,                        \* "Accept": "v"
      <<(<<65, 99, 99, 101, 112, 116>>), <<119>>>> >>,                     \* "Accept": "w"
   << <<(<<120, 45, 97, 109, 122, 45, 97>>), <<119>>>>,                    \* "x-amz-a": "w"
      <<(<<73, 102, 45, 77, 97, 116, 99, 104>>), <<10>>>> >>}              \* "If-Match": "\n"

\* body("xy")
Bodies == {<<120, 121>>}

Schemes == {HTTP}

\* 2020-02-29T01:02:03Z
DateTimes == {[year |-> 2020, month |-> 2, day |-> 29, hour |-> 1, minute |-> 2, second |-> 3]}

ContentHeadersValues ==
  {[ContentHeaders_default EXCEPT
      !.cache_control = <<[tag |-> "MaxAge", arg |-> 5], [tag |-> "Private"]>>,
      !.content_disposition = Some([tag |-> "AttachmentWithFile", arg |-> <<102>>]),  \* "f"
      !.content_encoding = Some([tag |-> "GZIP"]),
      !.content_language = Some(<<101, 110>>),                              \* "en"
      !.content_type = Some(<<116>>),                                       \* "t"
      !.expires = Some(dt),
      !.range = Some(<<0, Some(9)>>),
      !.content_md5 = Some(<<109>>)] : dt \in DateTimes}                    \* "m"

ConditionalHeadersValues ==
  {[ConditionalHeaders_default EXCEPT
      !.if_match = Some(<<101>>),                                           \* "e"
      !.if_unmodified_since = Some(dt)] : dt \in DateTimes}

\* XAmzHeadersBuilder::default() and the calls made on it
XAmzHeadersBuilders ==
  {[XAmzHeadersBuilder_default EXCEPT !.request_payer = TRUE],
   add_header([XAmzHeadersBuilder_default EXCEPT
                 !.encryption_customer_key_md5 = Some(<<77, 100>>),        \* "Md"
                 !.checksum = Some([tag |-> "Checksum", key |-> <<88>>,    \* "X"
                                    arg |-> <<99>>]),                      \* "c"
                 !.grants = <<"Read", "Read">>,
                 !.storage_class = Some([tag |-> "Glacier"]),
                 !.tagging = << <<(<<107>>), <<118>>>> >>,                 \* "k" = "v"
                 !.write_offset = Some(5)],
              <<88, 45, 65, 109, 122, 45, 77, 101, 116, 97, 45, 65>>,      \* "X-Amz-Meta-A"
              <<32, 118, 32>>)}                                            \* " v "

\* set_auth("A2", "S2", "eu", endpoint) with the endpoints "http://g.io", "/p"
\* and "g io"
Auths ==
  [access_key : {<<65, 50>>}, secret_key : {<<83, 50>>}, region : {<<101, 117>>},
   endpoint : {<<104, 116, 116, 112, 58, 47, 47, 103, 46, 105, 111>>, <<47, 112>>,
               <<103, 32, 105, 111>>}]

----------------------------------------------------------------------------
(* The response decoders: xml::reader::EventReader, the parse_xml_* helpers, *)
(* ApiObject::parse, ApiBucket::parse, ApiOwner::parse and the parse_body of *)
(* ListBucketsResponse and ListObjectsV2Response.  A decode runs one loop    *)
(* iteration at a time.  Its state d holds the event stream and the number   *)
(* pos of events the cursor has returned, the loops it is in (the innermost  *)
(* last, each with the position of the start-tag it was entered at), its     *)
(* locals, and its Result once it has returned.                              *)

\* an XmlEvent: StartDocument, EndDocument, StartElement { name },
\* EndElement { name }, Characters(value), Whitespace(value), and Error for the
\* Err the cursor returns
XmlEvent(type, name, value) == [type |-> type, name |-> name, value |-> value]

\* no decode has been started
NoDecode ==
  [routine |-> "none", result |-> "none", events |-> <<>>, pos |-> 0, stack |-> <<>>,
   response |-> <<>>, bucket |-> <<>>, api_object |-> <<>>, owner |-> <<>>,
   restore_status |-> <<>>]

\* EventReader::next: [event, d]; once the cursor has returned EndDocument or
\* an Err it returns that again
parser_next(d) ==
  LET at == IF d.pos > 0 /\ d.events[d.pos].type \in {"EndDocument", "Error"}
            THEN d.pos ELSE d.pos + 1
  IN [event |-> d.events[at], d |-> [d EXCEPT !.pos = at]]

\* return Err(..), and the ? operator on an Err
Err_with_record(d) == [d EXCEPT !.result = "ok"]
Err(d) == [d EXCEPT !.result = "err"]

\* loop { .. } of a routine, entered after the start-tag at d.pos of the
\* element named, and left by break
Loop(d, routine, name) ==
  [d EXCEPT !.stack = Append(@, [routine |-> routine, loop |-> name, start |-> d.pos])]
Break_to_function(d) == [d EXCEPT !.stack = SubSeq(@, 1, 1)]
Break(d) == [d EXCEPT !.stack = SubSeq(@, 1, Len(@) - 1)]

\* Ok(..) returned by the routine the decode was started for, from its loop
Ok(d) == [d EXCEPT !.result = "ok"]

\* parse_xml_string, and the same if let XmlEvent::Characters(value) =
\* parser.next()? { .. } else { return Err(..) } written in place:
\* [ok, value, d]
parse_xml_string(d) ==
  LET n == parser_next(d)
  IN [ok |-> n.event.type = "Characters", error |-> n.event.type = "Error",
      value |-> n.event.value, d |-> n.d]

\* the match on value.to_lowercase() for a bool: Some(bool), None for the Err
to_bool(value) ==
  IF ToLower(value) = <<116, 114, 117, 101>> THEN Some(TRUE)  \* "true"
  ELSE IF ToLower(value) = <<102, 97, 108, 115, 101>> THEN Some(FALSE)  \* "false"
  ELSE None

\* parse_xml_bool: [ok, value, d]
parse_xml_bool(d) ==
  LET s == parse_xml_string(d)
  IN [ok |-> s.ok /\ to_bool(s.value) # None,
      value |-> IF s.ok /\ to_bool(s.value) # None THEN to_bool(s.value)[1] ELSE FALSE,
      d |-> s.d]

\* value.parse::<i32>() (signed) and value.parse::<usize>(), for values of up
\* to nine digits: Some(number), None for the Err
FromStr(value, signed) ==
  LET digits == IF value # <<>> /\ (value[1] = 43 \/ (signed /\ value[1] = 45))
                THEN Tail(value) ELSE value
      RECURSIVE number(_)
      number(s) == IF s = <<>> THEN 0
                   ELSE 10 * number(SubSeq(s, 1, Len(s) - 1)) + (s[Len(s)] - 48)
  IN IF digits = <<>> \/ Len(digits) > 9 \/ \E i \in 1..Len(digits) : digits[i] \notin 48..57
     THEN None
     ELSE Some(IF value[1] = 45 THEN 0 - number(digits) ELSE number(digits))

\* parse_xml_value::<T>: [ok, value, d]
parse_xml_value(d, signed) ==
  LET s == parse_xml_string(d)
  IN [ok |-> s.ok /\ FromStr(s.value, signed) # None,
      value |-> IF s.ok /\ FromStr(s.value, signed) # None THEN FromStr(s.value, signed)[1]
                ELSE 0,
      d |-> s.d]

\* DateTime::parse_from_rfc3339(value)?.to_utc(), for the texts written
\* "YYYY-MM-DDTHH:MM:SSZ" and for texts no RFC 3339 form fits: Some(datetime),
\* None for the Err
parse_from_rfc3339(value) ==
  LET two(i) == (value[i] - 48) * 10 + (value[i + 1] - 48)
      dt == [year |-> two(1) * 100 + two(3), month |-> two(6), day |-> two(9),
             hour |-> two(12), minute |-> two(15), second |-> two(18)]
  IN IF /\ Len(value) = 20
        /\ \A i \in {1, 2, 3, 4, 6, 7, 9, 10, 12, 13, 15, 16, 18, 19} : value[i] \in 48..57
        /\ value[5] = 45 /\ value[8] = 45 /\ value[11] = 84
        /\ value[14] = 58 /\ value[17] = 58 /\ value[20] = 90
        /\ dt.month \in 1..12 /\ dt.day \in 1..31
        /\ dt.hour <= 23 /\ dt.minute <= 59 /\ dt.second <= 59
     THEN Some(dt)
     ELSE None

checksum_algorithm_from_str(algo) ==
  LET a == ToLower(algo)
  IN IF a = <<99, 114, 99, 51, 50>> THEN [tag |-> "CRC32", arg |-> <<>>]  \* "crc32"
     ELSE IF a = <<99, 114, 99, 51, 50, 99>> THEN [tag |-> "CRC32C", arg |-> <<>>]  \* "crc32c"
     ELSE IF a = <<115, 104, 97, 49>> THEN [tag |-> "SHA1", arg |-> <<>>]  \* "sha1"
     ELSE IF a = <<115, 104, 97, 50, 53, 54>> THEN [tag |-> "SHA256", arg |-> <<>>]  \* "sha256"
     ELSE IF a = <<99, 114, 99, 54, 52, 110, 118, 109, 101>>
          THEN [tag |-> "CRC64NVME", arg |-> <<>>]  \* "crc64nvme"
     ELSE [tag |-> "Alogrithm", arg |-> a]

storage_class_from_str(class) ==
  LET c == ToLower(class)
  IN IF c = <<115, 116, 97, 110, 100, 97, 114, 100>>
       THEN [tag |-> "Standard", arg |-> <<>>]  \* "standard"
     ELSE IF c = <<114, 101, 100, 117, 99, 101, 100, 95, 114, 101, 100, 117, 110, 100, 97, 110, 99, 121>>
          THEN [tag |-> "ReducedRedundancy", arg |-> <<>>]  \* "reduced_redundancy"
     ELSE IF c = <<103, 108, 97, 99, 105, 101, 114>>
          THEN [tag |-> "Glacier", arg |-> <<>>]  \* "glacier"
     ELSE IF c = <<115, 116, 97, 110, 100, 97, 114, 100, 95, 105, 97>>
          THEN [tag |-> "StandardIA", arg |-> <<>>]  \* "standard_ia"
     ELSE IF c = <<111, 110, 101, 122, 111, 110, 101, 95, 105, 97>>
          THEN [tag |-> "OnezoneIA", arg |-> <<>>]  \* "onezone_ia"
     ELSE IF c = <<105, 110, 116, 101, 108, 108, 105, 103, 101, 110, 116, 95, 116, 105, 101, 114, 105, 110, 103>>
          THEN [tag |-> "IntelligentTiering", arg |-> <<>>]  \* "intelligent_tiering"
     ELSE IF c = <<100, 101, 101, 112, 95, 97, 114, 99, 104, 105, 118, 101>>
          THEN [tag |-> "DeepArchive", arg |-> <<>>]  \* "deep_archive"
     ELSE IF c = <<111, 117, 116, 112, 111, 115, 116, 115>>
          THEN [tag |-> "Outposts", arg |-> <<>>]  \* "outposts"
     ELSE IF c = <<103, 108, 97, 99, 105, 101, 114, 95, 105, 114>>
          THEN [tag |-> "GlacierIR", arg |-> <<>>]  \* "glacier_ir"
     ELSE IF c = <<115, 110, 111, 119>> THEN [tag |-> "Snow", arg |-> <<>>]  \* "snow"
     ELSE IF c = <<101, 120, 112, 114, 101, 115, 115, 95, 111, 110, 101, 122, 111, 110, 101>>
          THEN [tag |-> "ExpressOneZone", arg |-> <<>>]  \* "express_onezone"
     ELSE [tag |-> "StorageClass", arg |-> c]

\* the struct literals the decoders start from; Utc::now() is the first clock
\* reading
ApiOwner_new == [display_name |-> None, id |-> <<>>]

ApiBucket_new == [name |-> <<>>, creation_date |-> None, region |-> <<>>]

ApiRestoreStatus_new == [is_restore_in_progress |-> FALSE, restore_expiry_date |-> UtcNow(0)]

ApiObject_new ==
  [checksum_algorithm |-> None, checksum_type |-> None, etag |-> <<>>, key |-> <<>>,
   last_modified |-> UtcNow(0), owner |-> None, restore_status |-> None, size |-> 0,
   storage_class |-> [tag |-> "Standard", arg |-> <<>>]]

\* one iteration of the loop of ApiOwner::parse; called by ApiObject::parse it
\* returns the owner to it
ApiOwner_parse(d) ==
  LET n == parser_next(d)
      v == parse_xml_string(n.d)
  IN IF n.event.type = "Error" THEN Err(n.d)
     ELSE IF n.event.type = "StartElement"
     THEN IF ~v.ok THEN Err(v.d)
          ELSE IF n.event.name = "DisplayName"
               THEN [v.d EXCEPT !.owner.display_name = Some(v.value)]
          ELSE IF n.event.name = "ID" THEN [v.d EXCEPT !.owner.id = v.value]
          ELSE v.d
     ELSE IF n.event.type = "EndElement" /\ n.event.name = "Owner"
     THEN IF Len(d.stack) = 1 THEN Ok(n.d)
          ELSE Break([n.d EXCEPT !.api_object.owner = Some(n.d.owner)])
     ELSE n.d

\* one iteration of the loop of ApiBucket::parse
ApiBucket_parse(d) ==
  LET n == parser_next(d)
      v == parse_xml_string(n.d)
      start(name) == n.event.type = "StartElement" /\ n.event.name = name
  IN IF n.event.type = "Error" THEN Err(n.d)
     ELSE IF start("BucketRegion")
     THEN IF v.ok THEN [v.d EXCEPT !.bucket.region = v.value] ELSE Err(v.d)
     ELSE IF start("CreationDate")
     THEN IF v.ok /\ parse_from_rfc3339(v.value) # None
          THEN [v.d EXCEPT !.bucket.creation_date = Some(parse_from_rfc3339(v.value)[1])]
          ELSE Err(v.d)
     ELSE IF start("Name")
     THEN IF v.ok THEN [v.d EXCEPT !.bucket.name = v.value] ELSE Err(v.d)
     ELSE IF n.event.type = "EndElement" /\ n.event.name = "Bucket" THEN Ok(n.d)
     ELSE n.d

\* one iteration of a loop of ApiObject::parse: the loop of the function, or
\* the loop of its RestoreStatus branch
ApiObject_parse(d) ==
  LET n == parser_next(d)
      v == parse_xml_string(n.d)
      b == parse_xml_bool(n.d)
      u == parse_xml_value(n.d, FALSE)
      start(name) == n.event.type = "StartElement" /\ n.event.name = name
      end(name) == n.event.type = "EndElement" /\ n.event.name = name
  IN IF n.event.type = "Error" THEN Err(n.d)
     ELSE IF d.stack[Len(d.stack)].loop = "RestoreStatus"
     THEN IF start("IsRestoreInProgress")
          THEN IF b.ok THEN [b.d EXCEPT !.restore_status.is_restore_in_progress = b.value]
               ELSE Err(b.d)
          ELSE IF start("RestoreExpiryDate")
          THEN IF v.ok /\ parse_from_rfc3339(v.value) # None
               THEN [v.d EXCEPT !.restore_status.restore_expiry_date =
                                   parse_from_rfc3339(v.value)[1]]
               ELSE Err(v.d)
          ELSE IF end("Owner")
          THEN Break([n.d EXCEPT !.api_object.restore_status = Some(n.d.restore_status)])
          ELSE n.d
     ELSE IF end("Contents") THEN Ok(n.d)
     ELSE IF start("ChecksumAlgorithm")
     THEN IF v.ok
          THEN [v.d EXCEPT !.api_object.checksum_algorithm =
                              Some(checksum_algorithm_from_str(v.value))]
          ELSE Err(v.d)
     ELSE IF start("ChecksumType")
     THEN IF v.ok /\ v.value = <<67, 79, 77, 80, 79, 83, 73, 84, 69>>  \* "COMPOSITE"
          THEN [v.d EXCEPT !.api_object.checksum_type = Some("Composite")]
          ELSE IF v.ok /\ v.value = <<70, 85, 76, 76, 95, 79, 66, 74, 69, 67, 84>>  \* "FULL_OBJECT"
          THEN [v.d EXCEPT !.api_object.checksum_type = Some("FullObject")]
          ELSE Err(v.d)
     ELSE IF start("ETag")
     THEN IF v.ok THEN [v.d EXCEPT !.api_object.etag = v.value] ELSE Err(v.d)
     ELSE IF start("Key")
     THEN IF v.ok THEN [v.d EXCEPT !.api_object.key = v.value] ELSE Err(v.d)
     ELSE IF start("LastModified")
     THEN IF v.ok /\ parse_from_rfc3339(v.value) # None
          THEN [v.d EXCEPT !.api_object.last_modified = parse_from_rfc3339(v.value)[1]]
          ELSE Err(v.d)
     ELSE IF start("Size")
     THEN IF u.ok THEN [u.d EXCEPT !.api_object.size = u.value] ELSE Err(u.d)
     ELSE IF start("StorageClass")
     THEN IF v.ok
          THEN [v.d EXCEPT !.api_object.storage_class = storage_class_from_str(v.value)]
          ELSE Err(v.d)
     ELSE IF start("Owner") THEN Loop([n.d EXCEPT !.owner = ApiOwner_new], "ApiOwner", "Owner")
     ELSE IF start("RestoreStatus")
     THEN Loop([n.d EXCEPT !.restore_status = ApiRestoreStatus_new], "ApiObject",
               "RestoreStatus")
     ELSE n.d

\* one iteration of a loop of ListBucketsResponse::parse_body: the loop of the
\* function (""), or the loop of its Owner branch, of its Buckets branch or of
\* a Bucket in it
ListBucketsResponse_parse_body(d) ==
  LET n == parser_next(d)
      v == parse_xml_string(n.d)
      loop == d.stack[Len(d.stack)].loop
      start(name) == n.event.type = "StartElement" /\ n.event.name = name
      end(name) == n.event.type = "EndElement" /\ n.event.name = name
  IN IF n.event.type = "Error" THEN Err(n.d)
     ELSE IF loop = "Owner"
     THEN IF n.event.type = "StartElement"
          THEN IF ~v.ok THEN Err(v.d)
               ELSE IF n.event.name = "DisplayName"
                    THEN [v.d EXCEPT !.response.owner.display_name = Some(v.value)]
               ELSE IF n.event.name = "ID" THEN [v.d EXCEPT !.response.owner.id = v.value]
               ELSE v.d
          ELSE IF end("Owner") THEN Break(n.d)
          ELSE n.d
     ELSE IF loop = "Buckets"
     THEN IF end("Buckets") THEN Break(n.d)
          ELSE IF n.event.type = "StartElement"
          THEN Loop([n.d EXCEPT !.bucket = ApiBucket_new], "ListBuckets", "Bucket")
          ELSE n.d
     ELSE IF loop = "Bucket"
     THEN IF start("BucketRegion")
          THEN IF v.ok THEN [v.d EXCEPT !.bucket.region = v.value] ELSE Err(v.d)
          ELSE IF start("CreationDate")
          THEN IF v.ok /\ parse_from_rfc3339(v.value) # None
               THEN [v.d EXCEPT !.bucket.creation_date = Some(parse_from_rfc3339(v.value)[1])]
               ELSE Err(v.d)
          ELSE IF start("Name")
          THEN IF v.ok THEN [v.d EXCEPT !.bucket.name = v.value] ELSE Err(v.d)
          ELSE IF end("Bucket")
          THEN Break([n.d EXCEPT !.response.buckets = Append(@, n.d.bucket)])
          ELSE n.d
     ELSE IF n.event.type = "EndDocument" THEN Ok(n.d)
     ELSE IF start("Prefix")
     THEN IF v.ok THEN [v.d EXCEPT !.response.prefix = Some(v.value)] ELSE Err(v.d)
     ELSE IF start("ContinuationToken")
     THEN IF v.ok THEN [v.d EXCEPT !.response.continuation_token = Some(v.value)]
          ELSE Err(v.d)
     ELSE IF start("Owner") THEN Loop(n.d, "ListBuckets", "Owner")
     ELSE IF start("Buckets") THEN Loop(n.d, "ListBuckets", "Buckets")
     ELSE n.d

\* one iteration of a loop of ListObjectsV2Response::parse_body: the loop of
\* the function (""), or the loop of its Contents branch, or of the Owner or
\* the RestoreStatus branch in it
ListObjectsV2Response_parse_body(d) ==
  LET n == parser_next(d)
      v == parse_xml_string(n.d)
      i == FromStr(v.value, TRUE)
      u == FromStr(v.value, FALSE)
      n2 == parser_next(n.d)
      v2 == parse_xml_string(n2.d)
      loop == d.stack[Len(d.stack)].loop
      start(name) == n.event.type = "StartElement" /\ n.event.name = name
      end(name) == n.event.type = "EndElement" /\ n.event.name = name
  IN IF n.event.type = "Error" THEN Err(n.d)
     ELSE IF loop = "Owner"
     THEN IF n.event.type = "StartElement"
          THEN IF ~v.ok THEN Err(v.d)
               ELSE IF n.event.name = "DisplayName"
                    THEN [v.d EXCEPT !.owner.display_name = Some(v.value)]
               ELSE IF n.event.name = "ID" THEN [v.d EXCEPT !.owner.id = v.value]
               ELSE v.d
          ELSE IF end("Owner") THEN Break([n.d EXCEPT !.api_object.owner = Some(n.d.owner)])
          ELSE n.d
     ELSE IF loop = "RestoreStatus"
     THEN IF n.event.type = "StartElement"
          THEN IF ~v.ok THEN Err(v.d)
               ELSE IF n.event.name = "IsRestoreInProgress"
                    THEN IF to_bool(v.value) # None
                         THEN [v.d EXCEPT !.restore_status.is_restore_in_progress =
                                             to_bool(v.value)[1]]
                         ELSE Err(v.d)
               ELSE IF n.event.name = "RestoreExpiryDate"
                    THEN IF parse_from_rfc3339(v.value) # None
                         THEN [v.d EXCEPT !.restore_status.restore_expiry_date =
                                             parse_from_rfc3339(v.value)[1]]
                         ELSE Err(v.d)
               ELSE v.d
          ELSE IF end("Owner")
          THEN Break([n.d EXCEPT !.api_object.restore_status = Some(n.d.restore_status)])
          ELSE n.d
     ELSE IF loop = "Contents"
     THEN IF end("Contents")
          THEN Break([n.d EXCEPT !.response.contents = Append(@, n.d.api_object)])
          ELSE IF start("ChecksumAlgorithm")
          THEN IF v.ok
               THEN [v.d EXCEPT !.api_object.checksum_algorithm =
                                   Some(checksum_algorithm_from_str(v.value))]
               ELSE Err(v.d)
          ELSE IF start("ChecksumType")
          THEN IF v.ok /\ v.value = <<>>       \* v == "": Composite; FullObject never
               THEN [v.d EXCEPT !.api_object.checksum_type = Some("Composite")]
               ELSE Err(v.d)
          ELSE IF start("ETag")
          THEN IF v.ok THEN [v.d EXCEPT !.api_object.etag = v.value] ELSE Err(v.d)
          ELSE IF start("Key")
          THEN IF v.ok THEN [v.d EXCEPT !.api_object.key = v.value] ELSE Err(v.d)
          ELSE IF start("LastModified")
          THEN IF v.ok /\ parse_from_rfc3339(v.value) # None
               THEN [v.d EXCEPT !.api_object.last_modified = parse_from_rfc3339(v.value)[1]]
               ELSE Err(v.d)
          ELSE IF start("Size")
          THEN IF v.ok /\ u # None THEN [v.d EXCEPT !.api_object.size = u[1]] ELSE Err(v.d)
          ELSE IF start("StorageClass")
          THEN IF v.ok
               THEN [v.d EXCEPT !.api_object.storage_class = storage_class_from_str(v.value)]
               ELSE Err(v.d)
          ELSE IF start("Owner")
          THEN Loop([n.d EXCEPT !.owner = ApiOwner_new], "ListObjectsV2", "Owner")
          ELSE IF start("RestoreStatus")
          THEN Loop([n.d EXCEPT !.restore_status = ApiRestoreStatus_new], "ListObjectsV2",
                    "RestoreStatus")
          ELSE n.d
     ELSE IF n.event.type = "EndDocument" THEN Ok(n.d)
     ELSE IF start("IsTruncated")
     THEN IF v.ok /\ to_bool(v.value) # None
          THEN [v.d EXCEPT !.response.is_truncated = to_bool(v.value)[1]]
          ELSE Err(v.d)
     ELSE IF start("Name")
     THEN IF v.ok THEN [v.d EXCEPT !.response.name = v.value] ELSE Err(v.d)
     ELSE IF start("Prefix")
     THEN IF v.ok THEN [v.d EXCEPT !.response.prefix = Some(v.value)]
          ELSE IF v.error THEN Err(v.d)
          ELSE v.d
     ELSE IF start("Delimiter")
     THEN IF v.ok THEN [v.d EXCEPT !.response.delimiter = Some(v.value)] ELSE Err(v.d)
     ELSE IF start("MaxKeys")
     THEN IF v.ok /\ i # None THEN [v.d EXCEPT !.response.max_keys = i[1]] ELSE Err(v.d)
     ELSE IF start("EncodingType")
     THEN IF v.ok THEN [v.d EXCEPT !.response.encoding_type = Some(v.value)] ELSE Err(v.d)
     ELSE IF start("KeyCount")
     THEN IF v.ok /\ i # None THEN [v.d EXCEPT !.response.key_count = i[1]] ELSE Err(v.d)
     ELSE IF start("ContinuationToken")
     THEN IF v.ok THEN [v.d EXCEPT !.response.continuation_token = Some(v.value)]
          ELSE Err(v.d)
     ELSE IF start("NextContinuationToken")
     THEN IF v.ok THEN [v.d EXCEPT !.response.next_continuation_token = Some(v.value)]
          ELSE Err(v.d)
     ELSE IF start("StartAfter")
     THEN IF v.ok THEN [v.d EXCEPT !.response.start_after = Some(v.value)] ELSE Err(v.d)
     ELSE IF start("CommonPrefixes")
     THEN IF n2.event.type = "StartElement" /\ n2.event.name = "Prefix" /\ v2.ok
          THEN [v2.d EXCEPT !.response.common_prefixes = Append(@, v2.value)]
          ELSE IF n2.event.type = "StartElement" /\ n2.event.name = "Prefix" THEN Err(v2.d)
          ELSE Err(n2.d)
     ELSE IF start("Contents")
     THEN Loop([n.d EXCEPT !.api_object = ApiObject_new], "ListObjectsV2", "Contents")
     ELSE n.d

\* the loop iteration the decode is at: that of the routine of its innermost loop
iterate(d) ==
  LET routine == d.stack[Len(d.stack)].routine
  IN IF routine = "ApiOwner" THEN ApiOwner_parse(d)
     ELSE IF routine = "ApiBucket" THEN ApiBucket_parse(d)
     ELSE IF routine = "ApiObject" THEN ApiObject_parse(d)
     ELSE IF routine = "ListBuckets" THEN ListBucketsResponse_parse_body(d)
     ELSE ListObjectsV2Response_parse_body(d)

----------------------------------------------------------------------------
(* Response bodies, as the event streams EventReader gives for them *)

\* <name>children</name>, <name>value</name>, a whole document, and the
\* first n events of a stream followed by the Err of the cursor
Element(name, children) ==
  <<XmlEvent("StartElement", name, <<>>)>> \o children \o <<XmlEvent("EndElement", name, <<>>)>>
Text(name, value) == Element(name, <<XmlEvent("Characters", "", value)>>)
Document(root, children) ==
  <<XmlEvent("StartDocument", "", <<>>)>> \o Element(root, children)
    \o <<XmlEvent("EndDocument", "", <<>>)>>
Truncated(events, n) == SubSeq(events, 1, n) \o <<XmlEvent("Error", "", <<>>)>>

\* the dates of the bodies
Jan1 == <<50, 48, 50, 48, 45, 48, 49, 45, 48, 49, 84, 48, 48, 58, 48, 48, 58, 48, 48, 90>>  \* "2020-01-01T00:00:00Z"
Dec31 == <<50, 48, 50, 49, 45, 49, 50, 45, 51, 49, 84, 50, 51, 58, 53, 57, 58, 53, 57, 90>>  \* "2021-12-31T23:59:59Z"

\* <Bucket> with Name, CreationDate and BucketRegion; <Owner> with ID
BucketElement(name, date, region) ==
  Element("Bucket", Text("Name", name) \o Text("CreationDate", date)
                      \o Text("BucketRegion", region))
OwnerElement(id) == Element("Owner", Text("ID", id))

\* the body with the one bucket x of us-east-1 and the owner abc
OneBucket ==
  Document("ListAllMyBucketsResult",
           Element("Buckets", BucketElement(<<120>>, Jan1, <<117, 115, 45, 101, 97, 115, 116, 45, 49>>))  \* "x", "us-east-1"
             \o OwnerElement(<<97, 98, 99>>))  \* "abc"

\* A record written with the element names the decoders match: a field of
\* type String, bool or number is the element of its name with its text, an
\* Option the element of its value or nothing, a Vec one element for each
\* entry; a date is written as parse_from_rfc3339 reads it, a storage class
\* as get_storage_class writes it, a checksum type as ApiObject::parse reads
\* it.
Rfc3339(dt) ==
  LET two(n) == <<48 + (n \div 10), 48 + (n % 10)>>
  IN two(dt.year \div 100) \o two(dt.year % 100) \o <<45>> \o two(dt.month) \o <<45>>
       \o two(dt.day) \o <<84>> \o two(dt.hour) \o <<58>> \o two(dt.minute) \o <<58>>
       \o two(dt.second) \o <<90>>
OptionText(name, option) == IF option = None THEN <<>> ELSE Text(name, option[1])
BoolText(name, bool) == Text(name, IF bool THEN <<116, 114, 117, 101>> ELSE <<102, 97, 108, 115, 101>>)

RECURSIVE Each(_, _)
\* the elements of the entries of a Vec, Write(entry) that of one
Each(Write(_), vec) == IF vec = <<>> THEN <<>> ELSE Write(Head(vec)) \o Each(Write, Tail(vec))

ApiOwner_write(owner) ==
  Element("Owner", OptionText("DisplayName", owner.display_name) \o Text("ID", owner.id))
ApiRestoreStatus_write(status) ==
  Element("RestoreStatus",
          BoolText("IsRestoreInProgress", status.is_restore_in_progress)
            \o Text("RestoreExpiryDate", Rfc3339(status.restore_expiry_date)))
ApiBucket_write(bucket) ==
  Element("Bucket",
          Text("Name", bucket.name)
            \o (IF bucket.creation_date = None THEN <<>>
                ELSE Text("CreationDate", Rfc3339(bucket.creation_date[1])))
            \o Text("BucketRegion", bucket.region))
ApiObject_write(object) ==
  Element("Contents",
          (IF object.checksum_algorithm = None THEN <<>>
           ELSE Text("ChecksumAlgorithm",
                     IF object.checksum_algorithm[1].tag = "Alogrithm"
                     THEN object.checksum_algorithm[1].arg
                     ELSE IF object.checksum_algorithm[1].tag = "CRC32" THEN <<67, 82, 67, 51, 50>>
                     ELSE IF object.checksum_algorithm[1].tag = "CRC32C" THEN <<67, 82, 67, 51, 50, 67>>
                     ELSE IF object.checksum_algorithm[1].tag = "SHA1" THEN <<83, 72, 65, 49>>
                     ELSE IF object.checksum_algorithm[1].tag = "SHA256" THEN <<83, 72, 65, 50, 53, 54>>
                     ELSE <<67, 82, 67, 54, 52, 78, 86, 77, 69>>))
            \o (IF object.checksum_type = None THEN <<>>
                ELSE Text("ChecksumType",
                          IF object.checksum_type[1] = "Composite" THEN <<67, 79, 77, 80, 79, 83, 73, 84, 69>>
                          ELSE <<70, 85, 76, 76, 95, 79, 66, 74, 69, 67, 84>>))
            \o Text("ETag", object.etag) \o Text("Key", object.key)
            \o Text("LastModified", Rfc3339(object.last_modified))
            \o (IF object.owner = None THEN <<>> ELSE ApiOwner_write(object.owner[1]))
            \o (IF object.restore_status = None THEN <<>>
                ELSE ApiRestoreStatus_write(object.restore_status[1]))
            \o Text("Size", IntToString(object.size))
            \o Text("StorageClass", get_storage_class([storage_class |-> Some(object.storage_class)])[1]))
ListBucketsResponse_write(response) ==
  Document("ListAllMyBucketsResult",
           OptionText("ContinuationToken", response.continuation_token)
             \o Element("Buckets", Each(ApiBucket_write, response.buckets))
             \o ApiOwner_write(response.owner) \o OptionText("Prefix", response.prefix))
ListObjectsV2Response_write(response) ==
  LET common_prefix(prefix) == Element("CommonPrefixes", Text("Prefix", prefix))
  IN Document("ListBucketResult",
              Each(common_prefix, response.common_prefixes)
                \o Each(ApiObject_write, response.contents)
                \o OptionText("EncodingType", response.encoding_type)
                \o BoolText("IsTruncated", response.is_truncated)
                \o Text("KeyCount", IntToString(response.key_count))
                \o Text("MaxKeys", IntToString(response.max_keys))
                \o Text("Name", response.name)
                \o OptionText("ContinuationToken", response.continuation_token)
                \o OptionText("NextContinuationToken", response.next_continuation_token)
                \o OptionText("Prefix", response.prefix)
                \o OptionText("Delimiter", response.delimiter)
                \o OptionText("StartAfter", response.start_after))

\* the records that are written and decoded again
ListBucketsRecords ==
  [continuation_token : {None, Some(<<116>>)},
   buckets : {<<>>,
              <<[name |-> <<120>>, creation_date |-> parse_from_rfc3339(Jan1), region |-> <<101, 117>>],
                [name |-> <<121>>, creation_date |-> None, region |-> <<117, 115>>]>>},
   owner : {[display_name |-> Some(<<109, 101>>), id |-> <<97, 98, 99>>]},
   prefix : {None}]

\* an object with etag e, size 12 and the key
TheObject(key) ==
  [checksum_algorithm |-> None, checksum_type |-> None, etag |-> <<101>>, key |-> key,
   last_modified |-> parse_from_rfc3339(Jan1)[1], owner |-> None, restore_status |-> None,
   size |-> 12, storage_class |-> [tag |-> "Standard", arg |-> <<>>]]
ApiObjectRecords ==
  {TheObject(<<107>>),
   [TheObject(<<107>>) EXCEPT !.checksum_algorithm = Some([tag |-> "SHA256", arg |-> <<>>]),
                           !.storage_class = [tag |-> "GlacierIR", arg |-> <<>>]],
   [TheObject(<<107>>) EXCEPT !.checksum_type = Some("Composite")],
   [TheObject(<<107>>) EXCEPT !.owner = Some([display_name |-> None, id |-> <<97, 98, 99>>])],
   [TheObject(<<107>>) EXCEPT !.restore_status =
      Some([is_restore_in_progress |-> TRUE, restore_expiry_date |-> parse_from_rfc3339(Dec31)[1]])],
   [TheObject(<<107>>) EXCEPT !.storage_class = [tag |-> "StorageClass", arg |-> <<67, 111, 108, 100>>]]}
ListObjectsV2Records ==
  {[common_prefixes |-> prefixes, contents |-> contents, encoding_type |-> None,
    is_truncated |-> TRUE, key_count |-> Len(contents), max_keys |-> 1000, name |-> <<98>>,
    continuation_token |-> None, next_continuation_token |-> Some(<<116>>),
    prefix |-> Some(<<112>>), delimiter |-> Some(<<47>>), start_after |-> None] :
     prefixes \in {<<>>, <<<<112, 47, 97>>>>},
     contents \in {<<>>, <<TheObject(<<107>>), TheObject(<<108>>)>>}
                    \cup {<<object>> : object \in ApiObjectRecords}}

ListBucketsBodies ==
  {OneBucket,
   \* two buckets, an owner with a display name, a prefix and a token
   Document("ListAllMyBucketsResult",
            Element("Buckets", BucketElement(<<120>>, Jan1, <<117, 115, 45, 101, 97, 115, 116, 45, 49>>)  \* "x", "us-east-1"
                                 \o BucketElement(<<121>>, Dec31, <<101, 117>>))  \* "y", "eu"
              \o Element("Owner", Text("DisplayName", <<109, 101>>) \o Text("ID", <<97, 98, 99>>))  \* "me", "abc"
              \o Text("Prefix", <<112>>) \o Text("ContinuationToken", <<116>>)),  \* "p", "t"
   \* no Owner, no bucket
   Document("ListAllMyBucketsResult", Element("Buckets", <<>>)),
   \* an Owner without ID, a Bucket with a CreationDate only
   Document("ListAllMyBucketsResult",
            Element("Buckets", Element("Bucket", Text("CreationDate", Jan1)))
              \o Element("Owner", Text("DisplayName", <<109, 101>>))),  \* "me"
   \* an empty Prefix; an empty Name in a Bucket; a CreationDate that is no date
   Document("ListAllMyBucketsResult", OwnerElement(<<97, 98, 99>>) \o Element("Prefix", <<>>)),  \* "abc"
   Document("ListAllMyBucketsResult",
            Element("Buckets", Element("Bucket", Element("Name", <<>>)))),
   Document("ListAllMyBucketsResult",
            Element("Buckets", BucketElement(<<120>>, <<121, 101, 115, 116, 101, 114, 100, 97, 121>>, <<101, 117>>))),  \* "x", "yesterday", "eu"
   \* the one-bucket body cut in the Bucket, and before the Owner's end
   Truncated(OneBucket, 6), Truncated(OneBucket, 17)}
    \cup {ListBucketsResponse_write(record) : record \in ListBucketsRecords}

\* a <Contents> with Key, LastModified, ETag, Size and StorageClass, and more
ContentsElement(key, more) ==
  Element("Contents",
          Text("Key", key) \o Text("LastModified", Jan1)
            \o Text("ETag", <<101>>) \o Text("Size", <<49, 50>>) \o Text("StorageClass", <<83, 84, 65, 78, 68, 65, 82, 68>>)  \* "e", "12", "STANDARD"
            \o more)

\* the IsTruncated, KeyCount and MaxKeys of a result
Counts == Text("IsTruncated", <<102, 97, 108, 115, 101>>) \o Text("KeyCount", <<49>>) \o Text("MaxKeys", <<49, 48, 48, 48>>)  \* "false", "1", "1000"

\* <RestoreStatus> with IsRestoreInProgress
RestoreStatusElement == Element("RestoreStatus", Text("IsRestoreInProgress", <<116, 114, 117, 101>>))  \* "true"

ListObjectsV2Bodies ==
  {\* one object, with name, prefix and delimiter
   Document("ListBucketResult",
            Text("Name", <<98>>) \o Text("Prefix", <<112>>) \o Text("Delimiter", <<47>>) \o Counts  \* "b", "p", "/"
              \o ContentsElement(<<107>>, <<>>)),  \* "k"
   \* nothing but the root
   Document("ListBucketResult", <<>>),
   \* a Contents with a Key only
   Document("ListBucketResult", Counts \o Element("Contents", Text("Key", <<107>>))),  \* "k"
   \* an empty Prefix; an empty Delimiter; an empty Key
   Document("ListBucketResult", Counts \o Element("Prefix", <<>>)),
   Document("ListBucketResult", Counts \o Element("Delimiter", <<>>)),
   Document("ListBucketResult", Counts \o Element("Contents", Element("Key", <<>>))),
   \* a prefix, and a CommonPrefixes section of two
   Document("ListBucketResult",
            Text("Prefix", <<112>>) \o Counts  \* "p"
              \o Element("CommonPrefixes", Text("Prefix", <<112, 47, 97>>) \o Text("Prefix", <<112, 47, 98>>))),  \* "p/a", "p/b"
   \* an object with a restore status
   Document("ListBucketResult", Counts \o ContentsElement(<<107>>, RestoreStatusElement)),  \* "k"
   \* an object with a restore status and then an owner, and a second object
   Document("ListBucketResult",
            Counts \o ContentsElement(<<107>>, RestoreStatusElement \o OwnerElement(<<97, 98, 99>>))  \* "k", "abc"
              \o ContentsElement(<<108>>, <<>>)),  \* "l"
   \* an object with an owner, a checksum and a storage class of its own
   Document("ListBucketResult",
            Counts \o Element("Contents",
                              Text("Key", <<107>>) \o Text("StorageClass", <<67, 111, 108, 100>>)  \* "k", "Cold"
                                \o Element("Owner", Text("ID", <<97, 98, 99>>)  \* "abc"
                                                      \o Text("DisplayName", <<109, 101>>))  \* "me"
                                \o Text("ChecksumAlgorithm", <<67, 82, 67, 51, 50>>)  \* "CRC32"
                                \o Text("ChecksumType", <<67, 79, 77, 80, 79, 83, 73, 84, 69>>))),  \* "COMPOSITE"
   \* an object with the checksum type FULL_OBJECT, and one with a type S3 has not
   Document("ListBucketResult",
            Counts \o Element("Contents", Text("Key", <<107>>) \o Text("ChecksumType", <<70, 85, 76, 76, 95, 79, 66, 74, 69, 67, 84>>))),
   Document("ListBucketResult",
            Counts \o Element("Contents", Text("Key", <<107>>) \o Text("ChecksumType", <<80, 65, 82, 84, 73, 65, 76>>))),
   \* a KeyCount that is no number
   Document("ListBucketResult", Text("KeyCount", <<49, 120>>)),  \* "1x"
   \* a body cut in its Contents
   Truncated(Document("ListBucketResult", Counts \o ContentsElement(<<107>>, <<>>)), 15)}  \* "k"
    \cup {ListObjectsV2Response_write(record) : record \in ListObjectsV2Records}

----------------------------------------------------------------------------
(* The state machine: one builder, made by a request type and then driven *)

Init ==
  /\ builder = None
  /\ origin = [kind |-> "none"]
  /\ ops = 0
  /\ built = NoBuild
  /\ decoder = NoDecode

\* S3Client::new_request_builder with each request type
Made(kind, req, made) ==
  /\ builder = None /\ origin.kind = "none"
  /\ builder' = made
  /\ origin' = [kind |-> kind, req |-> req]
  /\ UNCHANGED <<ops, built, decoder>>

GetObject ==
  \E req \in GetObjectRequests :
    Made("GetObject", req,
         GetObjectRequest_into_builder(req, S3Client.access_key, S3Client.secret_key,
                                       S3Client.region, S3Client.endpoint))

HeadObject ==
  \E req \in HeadObjectRequests :
    Made("HeadObject", req,
         HeadObjectRequest_into_builder(req, S3Client.access_key, S3Client.secret_key,
                                        S3Client.region, S3Client.endpoint))

PutObject ==
  \E req \in PutObjectRequests :
    Made("PutObject", req,
         PutObjectRequest_into_builder(req, S3Client.access_key, S3Client.secret_key,
                                       S3Client.region, S3Client.endpoint))

ListBuckets ==
  \E req \in ListBucketsRequests :
    Made("ListBuckets", req,
         ListBucketsRequest_into_builder(req, S3Client.access_key, S3Client.secret_key,
                                         S3Client.region, S3Client.endpoint))

ListObjectsV2 ==
  \E req \in ListObjectsV2Requests :
    Made("ListObjectsV2", req,
         ListObjectsV2Request_into_builder(req, S3Client.access_key, S3Client.secret_key,
                                           S3Client.region, S3Client.endpoint))

\* a builder call that returns &mut Self
Call(self) ==
  /\ builder # None /\ ops < MaxOps
  /\ builder' = Some(self)
  /\ ops' = ops + 1
  /\ built' = NoBuild
  /\ UNCHANGED <<origin, decoder>>

Method == \E m \in Methods : Call(method(builder[1], m))

Action == \E a \in Actions : Call(action(builder[1], a))

Query == \E q \in QueryPairs : Call(query(builder[1], q[1], q[2]))

Header == \E h \in HeaderPairs : Call(header(builder[1], h[1], h[2]))

Headers == \E hs \in HeaderVecs : Call(headers(builder[1], hs))

Body == \E b \in Bodies : Call(body(builder[1], b))

SetScheme == \E s \in Schemes : Call(scheme(builder[1], s))

SetContentHeaders == \E c \in ContentHeadersValues : Call(set_content_headers(builder[1], c))

SetContentQuery == \E c \in ContentHeadersValues : Call(set_content_query(builder[1], c))

SetConditionalHeaders ==
  \E c \in ConditionalHeadersValues : Call(set_conditional_headers(builder[1], c))

SetXAmzHeaders ==
  \E x \in XAmzHeadersBuilders : Call(set_x_amz_headers(builder[1], XAmzHeadersBuilder_build(x)))

SetAuth ==
  \E a \in Auths :
    Call(set_auth(builder[1], a.access_key, a.secret_key, a.region, a.endpoint))

Build ==
  /\ builder # None
  /\ \E t \in 0..MaxTick :
       LET r == build(builder[1], UtcNow(t))
       IN builder' = Some(r.self) /\ built' = r.ret
  /\ UNCHANGED <<origin, ops, decoder>>

Next ==
  \/ GetObject \/ HeadObject \/ PutObject \/ ListBuckets \/ ListObjectsV2
  \/ Method \/ Action \/ Query \/ Header \/ Headers \/ Body \/ SetScheme
  \/ SetContentHeaders \/ SetContentQuery \/ SetConditionalHeaders \/ SetXAmzHeaders
  \/ SetAuth
  \/ Build

Spec == Init /\ [][Next]_vars

----------------------------------------------------------------------------
(* The state machine of a decode: a routine is called on an event stream,    *)
(* the two parse_body at its head and the three parse after the start-tag of *)
(* their element, and runs its loops until it returns.                       *)

\* the routine called with the cursor at pos and these locals
Called(routine, name, events, pos, locals) ==
  /\ decoder = NoDecode
  /\ decoder' = Loop([locals EXCEPT !.routine = routine, !.result = "running",
                                    !.events = events, !.pos = pos], routine, name)
  /\ UNCHANGED <<builder, origin, ops, built>>

ListBucketsParseBody ==
  \E data \in ListBucketsBodies :
    Called("ListBuckets", "", data, 0,
           [NoDecode EXCEPT !.response =
              [continuation_token |-> None, buckets |-> <<>>, owner |-> ApiOwner_new,
               prefix |-> None]])

ListObjectsV2ParseBody ==
  \E data \in ListObjectsV2Bodies :
    Called("ListObjectsV2", "", data, 0,
           [NoDecode EXCEPT !.response =
              [common_prefixes |-> <<>>, contents |-> <<>>, encoding_type |-> None,
               is_truncated |-> FALSE, key_count |-> 0, max_keys |-> 0, name |-> <<>>,
               continuation_token |-> None, next_continuation_token |-> None,
               prefix |-> None, delimiter |-> None, start_after |-> None]])

ApiObjectParse ==
  \E data \in ListObjectsV2Bodies : \E i \in 1..Len(data) :
    /\ data[i] = XmlEvent("StartElement", "Contents", <<>>)
    /\ Called("ApiObject", "Contents", data, i, [NoDecode EXCEPT !.api_object = ApiObject_new])

ApiBucketParse ==
  \E data \in ListBucketsBodies : \E i \in 1..Len(data) :
    /\ data[i] = XmlEvent("StartElement", "Bucket", <<>>)
    /\ Called("ApiBucket", "Bucket", data, i, [NoDecode EXCEPT !.bucket = ApiBucket_new])

ApiOwnerParse ==
  \E data \in ListBucketsBodies \cup ListObjectsV2Bodies : \E i \in 1..Len(data) :
    /\ data[i] = XmlEvent("StartElement", "Owner", <<>>)
    /\ Called("ApiOwner", "Owner", data, i, [NoDecode EXCEPT !.owner = ApiOwner_new])

\* the decode runs the loop iteration it is at
Iterate ==
  /\ decoder.result = "running"
  /\ decoder' = iterate(decoder)
  /\ UNCHANGED <<builder, origin, ops, built>>

NextDecode ==
  \/ ListBucketsParseBody \/ ListObjectsV2ParseBody
  \/ ApiObjectParse \/ ApiBucketParse \/ ApiOwnerParse
  \/ Iterate

\* a decode that has been called keeps running
SpecDecode == Init /\ [][NextDecode]_vars /\ WF_vars(Iterate)

----------------------------------------------------------------------------
(* Properties of build().  In a state whose built.status is not "none" the   *)
(* latest call was build(): built holds its locals and its Result, builder   *)
(* the builder it left behind.                                               *)

\* build() got as far as signing: the endpoint had a host
Signed == built.status # "none" /\ built.amz_date # <<>>

\* the pairs of the query list as query() encodes them, in the order of the calls
Encoded(self) ==
  [i \in 1..Len(self.queried) |->
     <<percent_encode_query(self.queried[i][1]),
       percent_encode_query(IF self.queried[i][2] = None THEN <<>> ELSE self.queried[i][2][1])>>]

\* "key=value" of each pair, joined with "&"
Pairs(v) == Join([i \in 1..Len(v) |-> v[i][1] \o <<61>> \o v[i][2]], <<38>>)

\* v with the elements i and i + 1 exchanged
Swap(v, i) == [v EXCEPT ![i] = v[i + 1], ![i + 1] = v[i]]

\* a and b hold the same elements the same number of times
IsPermutation(a, b) ==
  /\ Len(a) = Len(b)
  /\ \A i \in 1..Len(a) :
       Cardinality({j \in 1..Len(a) : a[j] = a[i]}) = Cardinality({j \in 1..Len(b) : b[j] = a[i]})

\* C1: the query string build() appends to the emitted URI is the canonical
\* query string of the signed canonical request, each key and value encoded
\* once and in the same order; with an empty query list the URI has no '?' and
\* the canonical query line is empty.
C1_UriQueryIsCanonicalQuery ==
  built.status = "ok" =>
    LET self == builder[1]
    IN /\ built.query = Pairs(SortPairs(Encoded(self)))
       /\ built.canonical_request =
            self.method \o <<10, 47>> \o self.action \o <<10>> \o built.query \o <<10>>
              \o built.canonical_headers \o <<10>> \o built.signed_headers \o <<10>>
              \o built.payload_hash
       /\ built.uri =
            built.scheme \o <<58, 47, 47>> \o built.host \o <<47>> \o self.action
              \o (IF self.queried = <<>> THEN <<>> ELSE <<63>> \o built.query)
       /\ self.queried = <<>> =>
            built.query = <<>> /\ \A i \in 1..Len(built.uri) : built.uri[i] # 63

\* C2: the canonical query string does not depend on the order the pairs were
\* added in: it is the encoded pairs sorted by encoded key, then encoded value,
\* each written key=value, joined with '&' (duplicates kept, an absent value
\* the empty string), and exchanging any two neighbours of the list gives the
\* same string.
C2_CanonicalQueryOrderIndependent ==
  Signed =>
    LET self == builder[1]
        e == Encoded(self)
        s == SortPairs(e)
    IN /\ IsPermutation(s, e)
       /\ \A i \in 1..Len(s), j \in 1..Len(s) : i < j => ~PairLess(s[j], s[i])
       /\ built.query = Pairs(s)
       /\ \A i \in 1..(Len(e) - 1) :
            canonical_query([self EXCEPT !.query = Swap(e, i)]) = built.query

\* a build of a query list that was not added in sorted order and holds a pair
\* without a value
C2_Witness ==
  /\ Signed
  /\ Encoded(builder[1]) # SortPairs(Encoded(builder[1]))
  /\ \E i \in 1..Len(builder[1].queried) : builder[1].queried[i][2] = None

\* s is percent-encoded for a path: every byte of PATH_SET in it is the '%' of
\* an escape, two hexadecimal digits following
IsEncodedPath(s) ==
  \A i \in 1..Len(s) :
    s[i] \in PATH_SET =>
      /\ s[i] = 37 /\ i + 2 <= Len(s)
      /\ \A j \in {i + 1, i + 2} : s[j] \in (48..57) \cup (65..70)

\* C3: the ACTION in the canonical request and in the emitted URI is the
\* percent-encoded path, whether the path was given to new or to action(): no
\* character of the path set is left unencoded, and '/' is.
C3_ActionIsPercentEncoded ==
  built.status = "ok" =>
    LET self == builder[1]
    IN /\ self.action = percent_encode_path(self.path)
       /\ IsEncodedPath(self.action)
       /\ StartsWith(built.canonical_request, self.method \o <<10, 47>> \o self.action \o <<10>>)
       /\ StartsWith(built.uri,
                     built.scheme \o <<58, 47, 47>> \o built.host \o <<47>> \o self.action)


\* the three lines build() adds to the caller's x-amz headers, with the values
\* of the latest build
MandatoryLines ==
  << <<(<<104, 111, 115, 116>>), built.host>>,                              \* "host"
     <<(<<120, 45, 97, 109, 122, 45, 99, 111, 110, 116, 101, 110, 116, 45, 115, 104, 97, 50,
          53, 54>>), built.payload_hash>>,                                  \* "x-amz-content-sha256"
     <<(<<120, 45, 97, 109, 122, 45, 100, 97, 116, 101>>), built.amz_date>> >>  \* "x-amz-date"

\* the emitted request holds a header of this name and value
Emitted(name, value) == \E j \in 1..Len(built.headers) : built.headers[j] = <<name, value>>

\* C4: every header name in the canonical header block and in the signed-header
\* list is lower-case, whichever of header(), headers() and set_x_amz_headers()
\* the x-amz headers came through.
C4_SignedHeaderNamesLowerCase ==
  Signed =>
    /\ built.signed_headers = ToLower(built.signed_headers)
    /\ \A i \in 1..Len(builder[1].x_amz_headers) :
         builder[1].x_amz_headers[i][1] = ToLower(builder[1].x_amz_headers[i][1])

\* C5: the canonical header block is one "name:value" line for host,
\* x-amz-content-sha256, x-amz-date and each caller x-amz header, in ascending
\* order of name, each line ended by a newline; the signed-header list is the
\* names of the lines in that order joined with ';'; without caller x-amz
\* headers the block is the three mandatory lines.
C5_CanonicalHeaderBlock ==
  Signed =>
    LET lines == builder[1].x_amz_headers \o MandatoryLines
        s == SortPairs(lines)
    IN /\ IsPermutation(s, lines)
       /\ \A i \in 1..Len(s), j \in 1..Len(s) : i < j => ~StrLess(s[j][1], s[i][1])
       /\ built.canonical_headers =
            Flatten([i \in 1..Len(s) |-> s[i][1] \o <<58>> \o s[i][2] \o <<10>>])
       /\ built.signed_headers = Join([i \in 1..Len(s) |-> s[i][1]], <<59>>)
       /\ builder[1].x_amz_headers = <<>> =>
            built.canonical_headers =
              Flatten([i \in 1..3 |->
                         MandatoryLines[i][1] \o <<58>> \o MandatoryLines[i][2] \o <<10>>])

\* a build with caller x-amz headers, two of them of one name
C5_Witness ==
  /\ Signed
  /\ \E i, j \in 1..Len(builder[1].x_amz_headers) :
       i < j /\ builder[1].x_amz_headers[i][1] = builder[1].x_amz_headers[j][1]

\* C6: every x-amz header the caller supplied is in the header set of the
\* emitted request, with the value written into the canonical header block.
C6_SignedXAmzHeadersEmitted ==
  built.status = "ok" =>
    \A i \in 1..Len(builder[1].x_amz_headers) :
      Emitted(ToLower(builder[1].x_amz_headers[i][1]), builder[1].x_amz_headers[i][2])

\* C7: the emitted request holds host, x-amz-content-sha256, x-amz-date,
\* authorization, content-length (the length of the body, 0 without one) and
\* every general header the caller supplied with the value given, two of one
\* name included.
C7_EmittedHeaders ==
  built.status = "ok" =>
    /\ \A i \in 1..3 : Emitted(MandatoryLines[i][1], MandatoryLines[i][2])
    /\ Emitted(<<97, 117, 116, 104, 111, 114, 105, 122, 97, 116, 105, 111, 110>>,  \* "authorization"
               built.authorization_header)
    /\ Emitted(<<99, 111, 110, 116, 101, 110, 116, 45, 108, 101, 110, 103, 116, 104>>,  \* "content-length"
               IntToString(IF builder[1].body = None THEN 0 ELSE Len(builder[1].body[1])))
    /\ \A i \in 1..Len(builder[1].headers) :
         Emitted(ToLower(builder[1].headers[i][1]), builder[1].headers[i][2])

\* lists of general headers: none, "Accept": "v", "If-Match": "e" and "Accept": "w"
GeneralHeaderLists ==
  {<<>>,
   << <<(<<65, 99, 99, 101, 112, 116>>), <<118>>>> >>,
   << <<(<<73, 102, 45, 77, 97, 116, 99, 104>>), <<101>>>>,
      <<(<<65, 99, 99, 101, 112, 116>>), <<119>>>> >>}

\* C8: general headers do not influence signing: a builder that differs from
\* this one in its list of general headers only gets, at the same clock
\* reading, the same canonical request, signed-header list and signature.
C8_GeneralHeadersNotSigned ==
  Signed =>
    \A hs \in GeneralHeaderLists :
      LET other == build([builder[1] EXCEPT !.headers = hs], built.now).ret
      IN /\ other.canonical_request = built.canonical_request
         /\ other.signed_headers = built.signed_headers
         /\ other.signature = built.signature

\* a build of a builder with general headers, none of the lists compared with
C8_Witness ==
  /\ built.status = "ok"
  /\ builder[1].headers # <<>>
  /\ builder[1].headers \notin GeneralHeaderLists

\* C9: the signing key is the four-stage chain
\* HMAC(HMAC(HMAC(HMAC("AWS4" + secret, dateStamp), region), service), "aws4_request"),
\* a function of these four values only; build() derives it from the builder's
\* secret key and region, the date stamp of this build and the service "s3".
C9_SigningKeyChain ==
  Signed =>
    LET self == builder[1]
        k_date == hmac_sha256(<<65, 87, 83, 52>> \o self.secret_key,        \* "AWS4"
                              DateStamp(built.now))
        k_region == hmac_sha256(k_date, self.region)
        k_service == hmac_sha256(k_region, <<115, 51>>)                     \* "s3"
    IN /\ built.signing_key =
            hmac_sha256(k_service, <<97, 119, 115, 52, 95, 114, 101, 113, 117, 101, 115,
                                     116>>)                                 \* "aws4_request"
       /\ built.signing_key =
            get_signature_key(self.secret_key, built.date_stamp, self.region, <<115, 51>>)

\* a build after set_auth() changed the secret key and the region, on the day
\* after the first clock reading
C9_Witness ==
  /\ Signed
  /\ builder[1].secret_key # S3Client.secret_key
  /\ builder[1].region # S3Client.region
  /\ built.date_stamp # DateStamp(UtcNow(0))

\* C10: the string to sign is the four lines "AWS4-HMAC-SHA256", amzDate,
\* credential scope and hex SHA-256 of the canonical request; the credential
\* scope is dateStamp/region/s3/aws4_request; the canonical request is method,
\* '/' + ACTION, canonical query, canonical header block, signed-header list and
\* payload hash, in that order; the signature is the hex HMAC of the string to
\* sign under the signing key.
C10_StringToSign ==
  Signed =>
    LET self == builder[1]
    IN /\ built.credential_scope =
            built.date_stamp \o <<47>> \o self.region
              \o <<47, 115, 51, 47, 97, 119, 115, 52, 95, 114, 101, 113, 117, 101, 115,
                   116>>                                                    \* "/s3/aws4_request"
       /\ built.canonical_request =
            Join(<<self.method, <<47>> \o self.action, built.query, built.canonical_headers,
                   built.signed_headers, built.payload_hash>>, <<10>>)
       /\ built.string_to_sign =
            Join(<<(<<65, 87, 83, 52, 45, 72, 77, 65, 67, 45, 83, 72, 65, 50, 53,
                      54>>),                                                \* "AWS4-HMAC-SHA256"
                   built.amz_date, built.credential_scope,
                   HexEncode(Sha256Digest(built.canonical_request))>>, <<10>>)
       /\ built.signature = HexEncode(hmac_sha256(built.signing_key, built.string_to_sign))
       /\ built.amz_date = AmzDate(built.now) /\ built.date_stamp = DateStamp(built.now)

\* a build of a request with a body and a query
C10_Witness ==
  /\ built.status = "ok"
  /\ builder[1].body # None
  /\ builder[1].queried # <<>>

\* s ends with suffix
EndsWith(s, suffix) ==
  Len(s) >= Len(suffix) /\ SubSeq(s, Len(s) - Len(suffix) + 1, Len(s)) = suffix

\* the name "authorization"
AuthorizationName == <<97, 117, 116, 104, 111, 114, 105, 122, 97, 116, 105, 111, 110>>

\* C11: the authorization header is "AWS4-HMAC-SHA256 Credential=" access key
\* "/" credential scope ", SignedHeaders=" signed-header list ", Signature="
\* signature, the credential scope being the third line of the string to sign,
\* the signed-header list the one written into the canonical request and the
\* access key the builder's at the time of build(); a request that is emitted
\* carries this value under the name authorization.
C11_AuthorizationHeader ==
  Signed =>
    LET self == builder[1]
        value ==
          <<65, 87, 83, 52, 45, 72, 77, 65, 67, 45, 83, 72, 65, 50, 53, 54>>  \* "AWS4-HMAC-SHA256"
            \o <<32, 67, 114, 101, 100, 101, 110, 116, 105, 97, 108, 61>>     \* " Credential="
            \o self.access_key \o <<47>> \o built.credential_scope
            \o <<44, 32, 83, 105, 103, 110, 101, 100, 72, 101, 97, 100, 101, 114, 115,
                 61>>                                                         \* ", SignedHeaders="
            \o built.signed_headers
            \o <<44, 32, 83, 105, 103, 110, 97, 116, 117, 114, 101, 61>>      \* ", Signature="
            \o built.signature
    IN /\ built.authorization_header = value
       /\ StartsWith(built.string_to_sign,
                     <<65, 87, 83, 52, 45, 72, 77, 65, 67, 45, 83, 72, 65, 50, 53, 54, 10>>
                       \o built.amz_date \o <<10>> \o built.credential_scope \o <<10>>)
       /\ EndsWith(built.canonical_request,
                   <<10>> \o built.signed_headers \o <<10>> \o built.payload_hash)
       /\ built.status = "ok" => Emitted(AuthorizationName, value)

\* a request emitted after set_auth() replaced the access key
C11_Witness ==
  /\ built.status = "ok"
  /\ builder[1].access_key # S3Client.access_key

\* secret keys to build with: "SK", "S2", "zz"
SecretKeys == {<<83, 75>>, <<83, 50>>, <<122, 122>>}

\* the authorization value up to and including "Signature="
Unsigned(value, signature_) == SubSeq(value, 1, Len(value) - Len(signature_))

\* C12: the secret key is not carried by the signed request: a builder that
\* differs from this one in its secret key only gets, at the same clock
\* reading, the same Result, and when a request is emitted the same method, URI
\* and body and the same headers, but for the signature that ends the
\* authorization value.
C12_SecretKeyNotCarried ==
  built.status # "none" =>
    \A s \in SecretKeys :
      LET other == build([builder[1] EXCEPT !.secret_key = s], built.now).ret
      IN /\ other.status = built.status
         /\ other.error = built.error
         /\ other.method = built.method
         /\ other.uri = built.uri
         /\ other.body = built.body
         /\ Len(other.headers) = Len(built.headers)
         /\ \A i \in 1..Len(built.headers) :
              /\ other.headers[i][1] = built.headers[i][1]
              /\ IF built.headers[i][1] = AuthorizationName
                 THEN /\ EndsWith(built.headers[i][2], built.signature)
                      /\ EndsWith(other.headers[i][2], other.signature)
                      /\ Unsigned(other.headers[i][2], other.signature)
                           = Unsigned(built.headers[i][2], built.signature)
                 ELSE other.headers[i][2] = built.headers[i][2]

\* a request emitted with a body and a query, whose signature is another under
\* each other secret key
C12_Witness ==
  /\ built.status = "ok"
  /\ builder[1].body # None
  /\ builder[1].queried # <<>>
  /\ \A s \in SecretKeys \ {builder[1].secret_key} :
       build([builder[1] EXCEPT !.secret_key = s], built.now).ret.signature # built.signature

\* block holds the line "name:value"
HasLine(block, name, value) ==
  \E i \in 1..Len(block) :
    /\ i = 1 \/ block[i - 1] = 10
    /\ StartsWith(SubSeq(block, i, Len(block)), name \o <<58>> \o value \o <<10>>)

\* C13: build() resolves scheme and host from the endpoint.  An endpoint with a
\* scheme and a host gives both, whatever scheme the builder is configured
\* with; an endpoint with a host only gives the host, the scheme being the
\* configured one; with an endpoint that gives no host build() returns an error
\* and no request.  The host line of the canonical header block holds the host
\* of the emitted URI.
C13_SchemeAndHostFromEndpoint ==
  built.status # "none" =>
    LET self == builder[1]
        endpoint == UriFromStr(self.endpoint)
    IN IF endpoint.ok /\ endpoint.host # None
       THEN /\ Signed
            /\ built.host = endpoint.host[1]
            /\ built.scheme = IF endpoint.scheme # None THEN endpoint.scheme[1] ELSE self.scheme
            /\ HasLine(built.canonical_headers, <<104, 111, 115, 116>>, built.host)  \* "host"
            /\ built.status = "ok" =>
                 /\ UriFromStr(built.uri).scheme = Some(built.scheme)
                 /\ UriFromStr(built.uri).host = Some(built.host)
                 /\ StartsWith(built.uri, built.scheme \o <<58, 47, 47>> \o built.host \o <<47>>)
       ELSE /\ built.status = "err"
            /\ built.method = <<>> /\ built.uri = <<>> /\ built.headers = <<>>
            /\ built.canonical_request = <<>>

\* a request emitted for an endpoint whose scheme is not the configured one
C13_Witness ==
  /\ built.status = "ok"
  /\ UriFromStr(builder[1].endpoint).scheme # None
  /\ UriFromStr(builder[1].endpoint).scheme # Some(builder[1].scheme)

\* build() has returned an error for an endpoint without a host
C13_WitnessNoHost ==
  /\ built.status = "err"
  /\ UriFromStr(builder[1].endpoint).ok
  /\ UriFromStr(builder[1].endpoint).host = None

\* a request emitted for an endpoint without a scheme, with the scheme set by scheme()
C13_WitnessConfigured ==
  /\ built.status = "ok"
  /\ UriFromStr(builder[1].endpoint).scheme = None
  /\ builder[1].scheme = HTTP

\* the pairs of the builder's query list, and of the arguments of its query()
\* calls, under this parameter name
QueryOf(name) == SelectSeq(builder[1].query, LAMBDA p : p[1] = name)
QueriedOf(name) == SelectSeq(builder[1].queried, LAMBDA p : p[1] = name)

RECURSIVE DecimalValue(_)
\* the number a string of decimal digits denotes
DecimalValue(s) ==
  IF s = <<>> THEN 0 ELSE 10 * DecimalValue(SubSeq(s, 1, Len(s) - 1)) + (s[Len(s)] - 48)

\* s is the decimal rendering of n >= 1: digits only, no leading zero
IsDecimalOf(s, n) ==
  /\ s # <<>> /\ s[1] # 48
  /\ \A i \in 1..Len(s) : s[i] \in 48..57
  /\ DecimalValue(s) = n

\* into_builder of the request origin.req, limited in the field number under
\* the parameter name: Err when the number is below 1 or above 10000, else a
\* builder whose query holds the parameter once, with the decimal value, when
\* the number is given and not at all when it is absent
Limited(number, name) ==
  IF number # None /\ (number[1] < 1 \/ number[1] > 10000)
  THEN builder = None
  ELSE /\ builder # None
       /\ IF number = None THEN QueryOf(name) = <<>> /\ QueriedOf(name) = <<>>
          ELSE /\ Len(QueryOf(name)) = 1 /\ Len(QueriedOf(name)) = 1
               /\ IsDecimalOf(QueryOf(name)[1][2], number[1])
               /\ QueriedOf(name)[1][2] = Some(QueryOf(name)[1][2])

\* C14: into_builder of GetObjectRequest and HeadObjectRequest returns an error
\* and no builder for a part number below 1 or above 10000, and a builder for
\* 1..10000 and for none; the builder's query holds partNumber once, with the
\* decimal value, when the number is given and not at all when it is absent.
\* Likewise max_buckets of ListBucketsRequest under max-buckets.
C14_PartNumberLimits ==
  /\ origin.kind \in {"GetObject", "HeadObject"} =>
       Limited(origin.req.part_number,
               <<112, 97, 114, 116, 78, 117, 109, 98, 101, 114>>)           \* "partNumber"
  /\ origin.kind = "ListBuckets" =>
       Limited(origin.req.max_buckets,
               <<109, 97, 120, 45, 98, 117, 99, 107, 101, 116, 115>>)       \* "max-buckets"

\* a GetObjectRequest with part number 10000 has given a builder, built since
C14_Witness ==
  /\ origin.kind = "GetObject" /\ origin.req.part_number = Some(10000)
  /\ builder # None /\ built.status = "ok"

\* into_builder has returned an error for a part number of 10001, and of 0
C14_WitnessAbove ==
  /\ origin.kind = "HeadObject" /\ origin.req.part_number = Some(10001) /\ builder = None

C14_WitnessBelow ==
  /\ origin.kind = "ListBuckets" /\ origin.req.max_buckets = Some(0) /\ builder = None

\* C15: a builder made from a GetObjectRequest or a HeadObjectRequest holds the
\* version id, when one is given, under the parameter name "versionId" in this
\* spelling and case, and the part number under "partNumber".
C15_VersionIdParameter ==
  (origin.kind \in {"GetObject", "HeadObject"} /\ builder # None) =>
    /\ origin.req.version_id # None =>
         QueriedOf(<<118, 101, 114, 115, 105, 111, 110, 73, 100>>)           \* "versionId"
           = << <<(<<118, 101, 114, 115, 105, 111, 110, 73, 100>>), origin.req.version_id>> >>
    /\ origin.req.part_number # None =>
         Len(QueriedOf(<<112, 97, 114, 116, 78, 117, 109, 98, 101, 114>>)) = 1  \* "partNumber"

----------------------------------------------------------------------------
(* Properties of the decoders.  In a state whose decoder.result is "ok" or   *)
(* "err" the routine decoder.routine has returned; decoder.events is the     *)
(* stream it read, decoder.pos the number of events it consumed.             *)

\* the number of elements open before event i of the stream
Depth(events, i) ==
  Cardinality({j \in 1..(i - 1) : events[j].type = "StartElement"})
    - Cardinality({j \in 1..(i - 1) : events[j].type = "EndElement"})

\* the end-tag that matches the start-tag i; the last event when the stream is
\* cut before it
MatchingEnd(events, i) ==
  LET ends == {j \in (i + 1)..Len(events) :
                 events[j].type = "EndElement" /\ Depth(events, j) = Depth(events, i) + 1}
  IN IF ends = {} THEN Len(events) ELSE CHOOSE j \in ends : \A k \in ends : j <= k

\* the start-tags of the children of the element that starts at i, and those
\* of one name
Children(events, i) ==
  {j \in (i + 1)..(MatchingEnd(events, i) - 1) :
     events[j].type = "StartElement" /\ Depth(events, j) = Depth(events, i) + 1}
Named(events, i, name) == {j \in Children(events, i) : events[j].name = name}

\* the start-tag of the root element
Root(events) ==
  CHOOSE i \in 1..Len(events) :
    events[i].type = "StartElement" /\ \A j \in 1..(i - 1) : events[j].type # "StartElement"

\* the start-tag the routine was called after: the root for a parse_body
Entered == IF decoder.stack[1].start = 0 THEN Root(decoder.events) ELSE decoder.stack[1].start

\* the element that starts at i has a child of each of the names
HasAll(events, i, names) == \A name \in names : Named(events, i, name) # {}

\* C16: a decode that returns a record has read each required field from the
\* XML: Owner and its ID and the Name and BucketRegion of each Bucket for a
\* ListBucketsResult; IsTruncated, KeyCount and MaxKeys and the Key, ETag,
\* Size, StorageClass and LastModified of each Contents for a
\* ListObjectsV2Result.  A decode of a document that lacks one returns an error.
C16_RequiredFields ==
  decoder.result = "ok" =>
    LET events == decoder.events
        required(names) == HasAll(events, Entered, names)
    IN /\ decoder.routine = "ListBuckets" =>
            /\ required({"Owner"})
            /\ \A o \in Named(events, Entered, "Owner") : HasAll(events, o, {"ID"})
            /\ \A s \in Named(events, Entered, "Buckets") :
                 \A b \in Children(events, s) : HasAll(events, b, {"Name", "BucketRegion"})
       /\ decoder.routine = "ListObjectsV2" =>
            /\ required({"IsTruncated", "KeyCount", "MaxKeys"})
            /\ \A c \in Named(events, Entered, "Contents") :
                 HasAll(events, c, {"Key", "ETag", "Size", "StorageClass", "LastModified"})
       /\ decoder.routine = "ApiObject" =>
            required({"Key", "ETag", "Size", "StorageClass", "LastModified"})
       /\ decoder.routine = "ApiBucket" => required({"Name", "BucketRegion"})
       /\ decoder.routine = "ApiOwner" => required({"ID"})

\* the fields a decoder expects in an element of this name, each with a text
FieldsOf(element) ==
  CASE element = "ListAllMyBucketsResult" -> {"Prefix", "ContinuationToken"}
    [] element = "ListBucketResult" ->
         {"IsTruncated", "Name", "Prefix", "Delimiter", "MaxKeys", "EncodingType", "KeyCount",
          "ContinuationToken", "NextContinuationToken", "StartAfter"}
    [] element = "CommonPrefixes" -> {"Prefix"}
    [] element = "Contents" ->
         {"ChecksumAlgorithm", "ChecksumType", "ETag", "Key", "LastModified", "Size",
          "StorageClass"}
    [] element = "Owner" -> {"DisplayName", "ID"}
    [] element = "RestoreStatus" -> {"IsRestoreInProgress", "RestoreExpiryDate"}
    [] element = "Bucket" -> {"BucketRegion", "CreationDate", "Name"}
    [] OTHER -> {}

\* the start-tags of the elements event i is in, and that of its parent
Around(events, i) ==
  {j \in 1..(i - 1) : events[j].type = "StartElement" /\ MatchingEnd(events, j) > i}
Parent(events, i) == CHOOSE j \in Around(events, i) : \A k \in Around(events, i) : k <= j

\* the start-tags of expected fields among the events the decode consumed
\* after it was called
FieldStarts ==
  {i \in (decoder.stack[1].start + 1)..decoder.pos :
     /\ decoder.events[i].type = "StartElement"
     /\ Around(decoder.events, i) # {}
     /\ decoder.events[i].name
          \in FieldsOf(decoder.events[Parent(decoder.events, i)].name)}

\* C17: when a decode has consumed the start-tag of an expected field and the
\* next event is not a text event, it returns an error: a decode that returns
\* a record found a text after each field's start-tag.
C17_FieldTextFollowsStartTag ==
  decoder.result = "ok" =>
    \A i \in FieldStarts : decoder.events[i + 1].type = "Characters"

\* C18: the decode of a composite element (Owner, RestoreStatus, Bucket,
\* Contents), entered at its start-tag, consumes no event after the end-tag
\* that matches it, and leaves its loop having consumed that end-tag.
C18_CompositeStopsAtOwnEndTag ==
  [][LET frame == decoder.stack[Len(decoder.stack)]
         own == MatchingEnd(decoder.events, frame.start)
     IN (/\ decoder.result = "running"
         /\ frame.loop \in {"Owner", "RestoreStatus", "Bucket", "Contents"})
        => /\ decoder'.pos <= own
           /\ (Len(decoder'.stack) < Len(decoder.stack) \/ decoder'.result = "ok")
                => decoder'.pos = own]_vars

\* C19: every decode that is called returns, a record or an error.  A loop
\* iteration that reads EndDocument again and matches no arm leaves the
\* decode as it was: a loop that spins there is a behaviour that repeats
\* one running state for ever.
C19_DecodeTerminates ==
  (decoder.result = "running") ~> (decoder.result \in {"ok", "err"})

RECURSIVE TextsAt(_, _)
\* the texts that follow the start-tags at, in document order
TextsAt(events, at) ==
  IF at = {} THEN <<>>
  ELSE LET i == CHOOSE j \in at : \A k \in at : j <= k
       IN <<events[i + 1].value>> \o TextsAt(events, at \ {i})

\* the Prefix elements with a text in the element that starts at i
Prefixes(events, i) ==
  {j \in Named(events, i, "Prefix") : events[j + 1].type = "Characters"}

\* C20: a ListObjectsV2 decode that returns a record has appended every Prefix
\* of every CommonPrefixes section to common_prefixes, in document order, and
\* has set prefix from the Prefix children of the root only.
C20_CommonPrefixes ==
  (decoder.routine = "ListObjectsV2" /\ decoder.result = "ok") =>
    LET events == decoder.events
        root == Root(events)
        inside == UNION {Prefixes(events, s) : s \in Named(events, root, "CommonPrefixes")}
        direct == Prefixes(events, root)
    IN /\ decoder.response.common_prefixes = TextsAt(events, inside)
       /\ decoder.response.prefix =
            IF direct = {} THEN None
            ELSE Some(events[(CHOOSE j \in direct : \A k \in direct : k <= j) + 1].value)

\* the text of the child called name of the element that starts at i
TextOf(events, i, name) == events[(CHOOSE j \in Named(events, i, name) : TRUE) + 1].value

\* the element that starts at i has one child of each of the names, each
\* with a text
HasTexts(events, i, names) ==
  \A name \in names :
    /\ Cardinality(Named(events, i, name)) = 1
    /\ \A j \in Named(events, i, name) : events[j + 1].type = "Characters"

\* a whole ListAllMyBucketsResult whose Buckets section holds Bucket elements
\* only, each with Name, CreationDate and BucketRegion, followed by an Owner
\* with an ID
BucketsThenOwner(events) ==
  LET root == Root(events)
  IN /\ events[Len(events)].type = "EndDocument"
     /\ events[root].name = "ListAllMyBucketsResult"
     /\ Cardinality(Named(events, root, "Buckets")) = 1
     /\ Cardinality(Named(events, root, "Owner")) = 1
     /\ \A s \in Named(events, root, "Buckets") :
          /\ \A o \in Named(events, root, "Owner") : s < o /\ HasTexts(events, o, {"ID"})
          /\ \A b \in Children(events, s) :
               /\ events[b].name = "Bucket"
               /\ HasTexts(events, b, {"Name", "CreationDate", "BucketRegion"})
               /\ parse_from_rfc3339(TextOf(events, b, "CreationDate")) # None

RECURSIVE BucketsAt(_, _)
\* the buckets the Bucket elements that start at the positions at describe, in
\* document order
BucketsAt(events, at) ==
  IF at = {} THEN <<>>
  ELSE LET b == CHOOSE j \in at : \A k \in at : j <= k
       IN <<[name |-> TextOf(events, b, "Name"),
             creation_date |-> parse_from_rfc3339(TextOf(events, b, "CreationDate")),
             region |-> TextOf(events, b, "BucketRegion")]>>
            \o BucketsAt(events, at \ {b})

\* C21: the decode of a ListBucketsResult with n Bucket elements and then an
\* Owner returns the n buckets in document order, each with its own name,
\* region and creation date, and the owner id of the document; the body with
\* the bucket x of us-east-1 created 2020-01-01T00:00:00Z and the owner abc
\* gives that one bucket and that owner.
C21_BucketsInDocumentOrder ==
  (decoder.routine = "ListBuckets" /\ decoder.result \in {"ok", "err"}
     /\ BucketsThenOwner(decoder.events)) =>
    LET events == decoder.events
        root == Root(events)
        section == CHOOSE s \in Named(events, root, "Buckets") : TRUE
        owner == CHOOSE o \in Named(events, root, "Owner") : TRUE
    IN /\ decoder.result = "ok"
       /\ decoder.response.buckets = BucketsAt(events, Children(events, section))
       /\ Len(decoder.response.buckets) = Cardinality(Children(events, section))
       /\ decoder.response.owner.id = TextOf(events, owner, "ID")
       /\ events = OneBucket =>
            /\ decoder.response.buckets =
                 <<[name |-> <<120>>,
                    creation_date |-> Some([year |-> 2020, month |-> 1, day |-> 1, hour |-> 0,
                                            minute |-> 0, second |-> 0]),
                    region |-> <<117, 115, 45, 101, 97, 115, 116, 45, 49>>]>>
            /\ decoder.response.owner.id = <<97, 98, 99>>

\* a body of two buckets has been decoded, and the body of the one bucket x
C21_Witness ==
  /\ decoder.routine = "ListBuckets" /\ decoder.result = "ok"
  /\ BucketsThenOwner(decoder.events)
  /\ Len(decoder.response.buckets) = 2
  /\ decoder.response.buckets[1].name # decoder.response.buckets[2].name
C21_WitnessOne ==
  /\ decoder.routine = "ListBuckets" /\ decoder.result = "ok"
  /\ decoder.events = OneBucket

\* the checksum type a ChecksumType text names, None for a text that names none
ChecksumTypeOf(value) ==
  IF value = <<67, 79, 77, 80, 79, 83, 73, 84, 69>> THEN Some("Composite")
  ELSE IF value = <<70, 85, 76, 76, 95, 79, 66, 74, 69, 67, 84>> THEN Some("FullObject")
  ELSE None

\* the checksum type of the Contents element that starts at c: that of its
\* last ChecksumType element, None without one
ChecksumTypeAt(events, c) ==
  LET types == Named(events, c, "ChecksumType")
  IN IF types = {} THEN None
     ELSE ChecksumTypeOf(events[(CHOOSE j \in types : \A k \in types : k <= j) + 1].value)

\* the k-th Contents element of the root
ContentsAt(events, k) ==
  CHOOSE c \in Named(events, Root(events), "Contents") :
    Cardinality({b \in Named(events, Root(events), "Contents") : b <= c}) = k

\* C22: in the decode of a Contents entry, by ApiObject::parse and by
\* ListObjectsV2Response::parse_body, the ChecksumType text COMPOSITE gives
\* Composite and FULL_OBJECT gives FullObject, and the decode fails at a
\* ChecksumType text only when the text is neither.
C22_ChecksumType ==
  LET events == decoder.events
  IN /\ (decoder.routine = "ApiObject" /\ decoder.result = "ok") =>
          decoder.api_object.checksum_type = ChecksumTypeAt(events, Entered)
     /\ (decoder.routine = "ListObjectsV2" /\ decoder.result = "ok") =>
          \A k \in 1..Len(decoder.response.contents) :
            decoder.response.contents[k].checksum_type
              = ChecksumTypeAt(events, ContentsAt(events, k))
     /\ (/\ decoder.routine \in {"ApiObject", "ListObjectsV2"}
         /\ decoder.result = "err"
         /\ decoder.pos > 1
         /\ events[decoder.pos].type = "Characters"
         /\ events[decoder.pos - 1] = XmlEvent("StartElement", "ChecksumType", <<>>)) =>
          ChecksumTypeOf(events[decoder.pos].value) = None

C24_RoundTrip ==
  /\ \A record \in ListBucketsRecords :
       (/\ decoder.routine = "ListBuckets" /\ decoder.result \in {"ok", "err"}
        /\ decoder.events = ListBucketsResponse_write(record)) =>
         decoder.result = "ok" /\ decoder.response = record
  /\ \A record \in ListObjectsV2Records :
       (/\ decoder.routine = "ListObjectsV2" /\ decoder.result \in {"ok", "err"}
        /\ decoder.events = ListObjectsV2Response_write(record)) =>
         decoder.result = "ok" /\ decoder.response = record

----------------------------------------------------------------------------
(* Further properties of build() *)

\* the values the emitted request holds under the header name
ValuesOf(name) == {built.headers[j][2] : j \in {i \in 1..Len(built.headers) : built.headers[i][1] = name}}

\* C25: whatever general headers the caller supplied, the emitted request
\* holds under authorization, x-amz-date, x-amz-content-sha256 and
\* content-length the values build() computed and signed, and no other.
C25_ComputedHeadersKept ==
  built.status = "ok" =>
    /\ ValuesOf(<<97, 117, 116, 104, 111, 114, 105, 122, 97, 116, 105, 111, 110>>) = {built.authorization_header}
    /\ ValuesOf(<<120, 45, 97, 109, 122, 45, 100, 97, 116, 101>>) = {built.amz_date}
    /\ ValuesOf(<<120, 45, 97, 109, 122, 45, 99, 111, 110, 116, 101, 110, 116, 45, 115, 104, 97, 50, 53, 54>>) = {built.payload_hash}
    /\ ValuesOf(<<99, 111, 110, 116, 101, 110, 116, 45, 108, 101, 110, 103, 116, 104>>) =
         {IntToString(IF builder[1].body = None THEN 0 ELSE Len(builder[1].body[1]))}

RECURSIVE SplitOn(_, _)
\* the parts of s between the separators
SplitOn(s, separator) ==
  IF \A i \in 1..Len(s) : s[i] # separator THEN <<s>>
  ELSE LET i == CHOOSE j \in 1..Len(s) : s[j] = separator /\ \A k \in 1..(j - 1) : s[k] # separator
       IN <<SubSeq(s, 1, i - 1)>> \o SplitOn(SubSeq(s, i + 1, Len(s)), separator)

\* the names of the signed-header list, and the lines of the canonical header
\* block, of the latest build
SignedNames == SplitOn(built.signed_headers, 59)
CanonicalLines == SplitOn(SubSeq(built.canonical_headers, 1, Len(built.canonical_headers) - 1), 10)

\* C26: host, x-amz-content-sha256 and x-amz-date each occur once in the
\* canonical header block and once in the signed-header list, and no name
\* occurs twice in the signed-header list, whatever x-amz headers the caller
\* added.
C26_SignedHeadersOnce ==
  Signed =>
    /\ \A m \in 1..3 :
         /\ Cardinality({i \in 1..Len(SignedNames) : SignedNames[i] = MandatoryLines[m][1]}) = 1
         /\ Cardinality({i \in 1..Len(CanonicalLines) :
                           StartsWith(CanonicalLines[i], MandatoryLines[m][1] \o <<58>>)}) = 1
    /\ \A i \in 1..Len(SignedNames), j \in 1..Len(SignedNames) :
         SignedNames[i] = SignedNames[j] => i = j

\* the path of a URI text scheme://host/path?query
PathOfUri(text) ==
  LET colon == CHOOSE i \in 1..Len(text) : text[i] = 58 /\ \A k \in 1..(i - 1) : text[k] # 58
      rest == SubSeq(text, colon + 3, Len(text))
      after == SubSeq(rest, FirstIn(rest, {47}), Len(rest))
  IN SplitOn(after, 63)[1]

\* the path line of the canonical request of the latest build
CanonicalPath == SplitOn(built.canonical_request, 10)[2]

\* s begins with one '/' and no second
OneSlash(s) == s # <<>> /\ s[1] = 47 /\ (Len(s) > 1 => s[2] # 47)

\* C27: the path of the emitted URI and the path line of the canonical request
\* begin with one '/'; for a ListBucketsRequest and a ListObjectsV2Request,
\* whose builders are made with the action "/", the path is "/".
C27_PathBeginsWithOneSlash ==
  built.status = "ok" =>
    /\ OneSlash(PathOfUri(built.uri))
    /\ OneSlash(CanonicalPath)
    /\ (origin.kind \in {"ListBuckets", "ListObjectsV2"} /\ builder[1].path = <<47>>) =>
         PathOfUri(built.uri) = <<47>> /\ CanonicalPath = <<47>>

\* C28: the request S3Client::head_object builds, build() called on the
\* builder HeadObjectRequest::into_builder returned, has the method HEAD and
\* an empty body.
C28_HeadObjectMethod ==
  (built.status = "ok" /\ origin.kind = "HeadObject" /\ ops = 0) =>
    built.method = HEAD /\ built.body = <<>>

----------------------------------------------------------------------------
(* The two decoders of a Contents entry *)

RECURSIVE RunContents(_, _)
\* the inline decoder of ListObjectsV2Response::parse_body run from d, for at
\* most steps loop iterations, until it leaves the Contents loop or returns
RunContents(d, steps) ==
  IF d.result # "running" \/ Len(d.stack) = 1 \/ steps = 0 THEN d
  ELSE RunContents(iterate(d), steps - 1)

\* the inline decoder after the Contents start-tag at start of the events
InlineContents(events, start) ==
  RunContents([NoDecode EXCEPT !.routine = "ListObjectsV2", !.result = "running",
                               !.events = events, !.pos = start,
                               !.response = [contents |-> <<>>],
                               !.api_object = ApiObject_new,
                               !.stack = <<[routine |-> "ListObjectsV2", loop |-> "", start |-> 0],
                                           [routine |-> "ListObjectsV2", loop |-> "Contents",
                                            start |-> start]>>],
              Len(events) + 1)

\* C29: ApiObject::parse and the inline Contents decoder of
\* ListObjectsV2Response::parse_body, started after the same Contents
\* start-tag of the same events, both return an error, or both give the same
\* object and leave the cursor at the same event.
C29_ContentsDecodersAgree ==
  (decoder.routine = "ApiObject" /\ decoder.result \in {"ok", "err"}) =>
    LET inline == InlineContents(decoder.events, decoder.stack[1].start)
    IN IF decoder.result = "err" THEN inline.result = "err"
       ELSE /\ inline.result = "running" /\ Len(inline.stack) = 1
            /\ inline.api_object = decoder.api_object
            /\ inline.response.contents = <<decoder.api_object>>
            /\ inline.pos = decoder.pos

----------------------------------------------------------------------------
(* The builder after build() *)

\* C30: build() leaves the builder as it was but for the order of its query
\* list, which is a permutation of the list before the call, and a second
\* build() of the builder it leaves, at the same clock reading, returns what
\* the first returned.
C30_BuilderReusable ==
  [][Build =>
       /\ builder'[1] = [builder[1] EXCEPT !.query = builder'[1].query]
       /\ IsPermutation(builder'[1].query, builder[1].query)
       /\ built'.status = "ok" =>
            /\ build(builder'[1], built'.now).ret = built'
            /\ build(builder'[1], built'.now).self = builder'[1]]_vars

\* build() has returned a request for a builder whose query list it put in
\* another order
C30_Witness ==
  /\ built.status = "ok"
  /\ Len(builder[1].query) >= 2
  /\ builder[1].query # Encoded(builder[1])

====
